---- MODULE Spec2Model ----
(***************************************************************************)
(* Model of the query engine of the broken-links browser (src/app.py):     *)
(* parse_advanced_search, filter_dataframe_advanced, _search_any_field and *)
(* field_filter, applied to a loaded metadata table.                       *)
(*                                                                         *)
(* A Python str is a sequence of one-character strings, so that slicing,   *)
(* str.lower, str.strip, str.replace and the regular expressions are       *)
(* computed character by character.  A missing CSV cell (NaN) is the       *)
(* distinguished value NaN.                                                *)
(***************************************************************************)
EXTENDS Integers, Sequences, FiniteSets, TLC

\* ------------------------------------------------------------------------
\* Characters and the str methods the code uses
\* ------------------------------------------------------------------------
\* The characters of Latin-1 in code-point order, Latin1[n] = chr(n) for
\* n in 1..255.  chr(96), the grave accent, cannot be written in a TLA+
\* string: it is the value "U+0060", a character like the others, equal to
\* none of them and not the empty string.  Characters beyond U+00FF are
\* outside the model.
Latin1 == <<"","","","","","","","","\t","\n","","\f",
           "\r","","","","","","","","","","","",
           "","","","","","",""," ","!","\"","#","$",
           "%","&","'","(",")","*","+",",","-",".","/","0",
           "1","2","3","4","5","6","7","8","9",":",";","<",
           "=",">","?","@","A","B","C","D","E","F","G","H",
           "I","J","K","L","M","N","O","P","Q","R","S","T",
           "U","V","W","X","Y","Z","[","\\","]","^","_","U+0060",
           "a","b","c","d","e","f","g","h","i","j","k","l",
           "m","n","o","p","q","r","s","t","u","v","w","x",
           "y","z","{","|","}","~","","","","","","",
           "","","","","","","","","","","","",
           "","","","","","","","","","","","",
           "","",""," ","¡","¢","£","¤","¥","¦","§","¨",
           "©","ª","«","¬","­","®","¯","°","±","²","³","´",
           "µ","¶","·","¸","¹","º","»","¼","½","¾","¿","À",
           "Á","Â","Ã","Ä","Å","Æ","Ç","È","É","Ê","Ë","Ì",
           "Í","Î","Ï","Ð","Ñ","Ò","Ó","Ô","Õ","Ö","×","Ø",
           "Ù","Ú","Û","Ü","Ý","Þ","ß","à","á","â","ã","ä",
           "å","æ","ç","è","é","ê","ë","ì","í","î","ï","ð",
           "ñ","ò","ó","ô","õ","ö","÷","ø","ù","ú","û","ü",
           "ý","þ","ÿ">>

\* ord(c)
ord(c) == CHOOSE n \in 1..255 : Latin1[n] = c

\* the characters str.lower() changes, and what it changes them to
UpperChars == <<"A","B","C","D","E","F","G","H","I","J","K","L","M",
                "N","O","P","Q","R","S","T","U","V","W","X","Y","Z",
                "À","Á","Â","Ã","Ä","Å","Æ","Ç","È","É","Ê","Ë","Ì",
                "Í","Î","Ï","Ð","Ñ","Ò","Ó","Ô","Õ","Ö","Ø","Ù","Ú",
                "Û","Ü","Ý","Þ">>
LowerChars == <<"a","b","c","d","e","f","g","h","i","j","k","l","m",
                "n","o","p","q","r","s","t","u","v","w","x","y","z",
                "à","á","â","ã","ä","å","æ","ç","è","é","ê","ë","ì",
                "í","î","ï","ð","ñ","ò","ó","ô","õ","ö","ø","ù","ú",
                "û","ü","ý","þ">>
DigitChars == {"0","1","2","3","4","5","6","7","8","9"}

Range(f) == {f[i] : i \in DOMAIN f}

\* string.ascii_letters
AsciiLetters == {Latin1[n] : n \in (65..90) \cup (97..122)}

\* \s of the re module on a str pattern, and the characters str.strip()
\* removes (str.isspace): \t \n \v \f \r, FS GS RS US, space, NEL, NBSP
Whitespace == {Latin1[n] : n \in (9..13) \cup (28..32) \cup {133, 160}}

\* \w of the re module on a str pattern: '_' and every str.isalnum character
WordChars ==
    Range(UpperChars) \cup Range(LowerChars) \cup DigitChars \cup {"_"}
    \cup {"ª","²","³","µ","¹","º","¼","½","¾","ß","ÿ"}

IsWordChar(c) == c \in WordChars

LowerOf == [c \in Range(UpperChars) |->
               LowerChars[CHOOSE i \in DOMAIN UpperChars : UpperChars[i] = c]]

lower_char(c) == IF c \in DOMAIN LowerOf THEN LowerOf[c] ELSE c

\* str.lower()
str_lower(s) == [i \in 1..Len(s) |-> lower_char(s[i])]

\* str.strip()
str_strip(s) ==
    LET keep == {i \in 1..Len(s) : s[i] \notin Whitespace}
    IN  IF keep = {} THEN <<>>
        ELSE LET lo == CHOOSE i \in keep : \A j \in keep : i <= j
                 hi == CHOOSE i \in keep : \A j \in keep : i >= j
             IN  SubSeq(s, lo, hi)

\* str.startswith / str.endswith
str_startswith(s, pre) == Len(pre) <= Len(s) /\ SubSeq(s, 1, Len(pre)) = pre
str_endswith(s, suf) ==
    Len(suf) <= Len(s) /\ SubSeq(s, Len(s) - Len(suf) + 1, Len(s)) = suf

\* s[n:]
str_from(s, n) == SubSeq(s, n + 1, Len(s))

\* the `in` operator on two strs: sub in s
str_in(sub, s) ==
    \E i \in 0..(Len(s) - Len(sub)) : SubSeq(s, i + 1, i + Len(sub)) = sub

\* str.replace(old, ''): every non-overlapping occurrence, left to right
RECURSIVE str_remove_from(_, _, _)
str_remove_from(s, old, p) ==
    IF p > Len(s) THEN <<>>
    ELSE IF Len(old) > 0 /\ p + Len(old) - 1 <= Len(s)
            /\ SubSeq(s, p, p + Len(old) - 1) = old
         THEN str_remove_from(s, old, p + Len(old))
         ELSE <<s[p]>> \o str_remove_from(s, old, p + 1)

str_remove(s, old) == str_remove_from(s, old, 1)

\* ------------------------------------------------------------------------
\* parse_advanced_search: the token pattern (\w+):"([^"]+)"|(\w+):(\S+)
\* ------------------------------------------------------------------------
\* end of the maximal run of characters satisfying Cls that starts at p
\* (p - 1 when s[p] is not in the class)
RECURSIVE RunEnd(_, _, _)
RunEnd(s, p, Cls) ==
    IF p <= Len(s) /\ s[p] \in Cls THEN RunEnd(s, p + 1, Cls) ELSE p - 1

WordCharsOf(s) == {c \in Range(s) : IsWordChar(c)}
NonSpaceOf(s) == {c \in Range(s) : c \notin Whitespace}
NonQuoteOf(s) == {c \in Range(s) : c # "\""}

NoMatch == [start |-> 0, end |-> 0, field |-> <<>>, value |-> <<>>]

\* re match of the token pattern anchored at position p
TokenAt(s, p) ==
    LET ne == RunEnd(s, p, WordCharsOf(s))       \* (\w+), greedy
        c  == ne + 1                             \* the colon
    IN  IF ne < p \/ c > Len(s) \/ s[c] # ":" THEN NoMatch
        ELSE
          LET q  == RunEnd(s, c + 2, NonQuoteOf(s))   \* "([^"]+)"
              ve == RunEnd(s, c + 1, NonSpaceOf(s))   \* (\S+)
          IN  IF c + 1 <= Len(s) /\ s[c + 1] = "\"" /\ q >= c + 2
                 /\ q + 1 <= Len(s) /\ s[q + 1] = "\""
              THEN [start |-> p, end |-> q + 1,
                    field |-> SubSeq(s, p, ne), value |-> SubSeq(s, c + 2, q)]
              ELSE IF ve >= c + 1
              THEN [start |-> p, end |-> ve,
                    field |-> SubSeq(s, p, ne), value |-> SubSeq(s, c + 1, ve)]
              ELSE NoMatch

\* pattern.finditer(search_term): non-overlapping matches, left to right
RECURSIVE finditer(_, _)
finditer(s, p) ==
    IF p > Len(s) THEN <<>>
    ELSE LET m == TokenAt(s, p)
         IN  IF m.start = 0 THEN finditer(s, p + 1)
             ELSE <<m>> \o finditer(s, m.end + 1)

\* filters[key] = value on a dict kept as a sequence of <<key, value>> pairs
\* in insertion order: an existing key keeps its place and takes the value
dict_set(d, k, v) ==
    IF \E i \in 1..Len(d) : d[i][1] = k
    THEN [i \in 1..Len(d) |-> IF d[i][1] = k THEN <<k, v>> ELSE d[i]]
    ELSE Append(d, <<k, v>>)

\* rest.replace(match.group(0), '')
remove_token(rest, token) == str_remove(rest, token)

RECURSIVE parse_loop(_, _, _, _, _)
parse_loop(s, ms, i, filters, rest) ==
    IF i > Len(ms) THEN [filters |-> filters, rest |-> str_strip(rest)]
    ELSE parse_loop(s, ms, i + 1,
                    dict_set(filters, str_lower(ms[i].field), ms[i].value),
                    remove_token(rest, SubSeq(s, ms[i].start, ms[i].end)))

parse_advanced_search(search_term) ==
    parse_loop(search_term, finditer(search_term, 1), 1, <<>>, search_term)

\* ------------------------------------------------------------------------
\* The re module as Series.str.contains(pat) reaches it (regex=True, no
\* flags): re.compile(pat), then regex.search(cell) is not None.
\*
\* The parser follows re/_parser.py of CPython 3.11.  Modelled: literals,
\* '.', '^', '$', '|', character sets with ranges, negation and category
\* escapes, the escapes \d \D \s \S \w \W \A \b \B \Z \a \f \n \r \t \v and
\* escaped punctuation, groups '(' ')' and '(?:' ')', lookahead '(?=' and
\* '(?!', the repeats * + ? {m} {m,} {,n} {m,n}, their lazy forms, and the
\* possessive forms of a one-character item.  Outside the model, and left
\* undefined by it (parse gives "unsupported", for which regex_compiles
\* and regex_search have no value): backreferences, octal, \x \u \U \N
\* escapes, named groups, comments, lookbehind, conditional and atomic
\* groups, inline flags, possessive repeats of a group, and repeat counts
\* of more than nine digits.
\* ------------------------------------------------------------------------
REPEAT_CHARS == {"*", "+", "?", "{"}
FLAGS == {"i", "L", "m", "s", "x", "a", "t", "u"}

\* the upper limit of an open repeat (2^32 - 1 in CPython)
MAXREPEAT == -1

_REPEATCODES == {"min_repeat", "max_repeat", "possessive_repeat"}
_UNITCODES == {"any", "in", "literal"}

\* \a \b \f \n \r \t \v \\
ESCAPES ==
    ("a" :> Latin1[7]) @@ ("b" :> Latin1[8]) @@ ("f" :> "\f") @@ ("n" :> "\n")
    @@ ("r" :> "\r") @@ ("t" :> "\t") @@ ("v" :> Latin1[11]) @@ ("\\" :> "\\")

\* the escapes that stand for a set of characters, and for a position
CategoryChars == {"d", "D", "s", "S", "w", "W"}
AtChars == {"A", "b", "B", "Z"}

\* the next character of the pattern, "" at its end
peek(pat, i) == IF i <= Len(pat) THEN pat[i] ELSE ""

\* int(text) for a run of decimal digits
RECURSIVE int_of(_)
int_of(text) ==
    IF text = <<>> THEN 0
    ELSE int_of(SubSeq(text, 1, Len(text) - 1)) * 10 + (ord(text[Len(text)]) - 48)

Failed(st) == [st |-> st, node |-> <<>>, next |-> 0]
Parsed(node, next) == [st |-> "ok", node |-> node, next |-> next]
Literal(c) == [op |-> "literal", ch |-> c]
Category(c) == [op |-> "category", cat |-> c]

\* _escape: the escape at pat[i] = '\' outside a character set
_escape(pat, i) ==
    LET c == peek(pat, i + 1)
    IN  IF c = "" THEN Failed("error")            \* bad escape (end of pattern)
        ELSE IF c \in AtChars THEN Parsed([op |-> "at", at |-> c], i + 2)
        ELSE IF c \in CategoryChars
             THEN Parsed([op |-> "in", negate |-> FALSE, set |-> <<Category(c)>>],
                         i + 2)
        ELSE IF c \in DOMAIN ESCAPES THEN Parsed(Literal(ESCAPES[c]), i + 2)
        ELSE IF c \in {"x", "u", "U", "N"} \cup DigitChars THEN Failed("unsupported")
        ELSE IF c \in AsciiLetters THEN Failed("error")           \* bad escape
        ELSE Parsed(Literal(c), i + 2)

\* _class_escape: the escape at pat[i] = '\' inside a character set
_class_escape(pat, i) ==
    LET c == peek(pat, i + 1)
    IN  IF c = "" THEN Failed("error")
        ELSE IF c \in DOMAIN ESCAPES THEN Parsed(Literal(ESCAPES[c]), i + 2)
        ELSE IF c \in CategoryChars THEN Parsed(Category(c), i + 2)
        ELSE IF c \in {"x", "u", "U", "N"} \cup DigitChars THEN Failed("unsupported")
        ELSE IF c \in AsciiLetters THEN Failed("error")
        ELSE Parsed(Literal(c), i + 2)

\* the members of a character set from position j to its closing ']'
RECURSIVE parse_set(_, _, _, _)

\* the range code1-code2, with its upper end read
set_range(pat, negate, set, code1, code2) ==
    IF code2.st # "ok" THEN code2
    ELSE IF code1.node.op # "literal" \/ code2.node.op # "literal"
         THEN Failed("error")                     \* bad character range
    ELSE IF ord(code2.node.ch) < ord(code1.node.ch) THEN Failed("error")
    ELSE parse_set(pat, code2.next, negate,
                   Append(set, [op |-> "range", lo |-> ord(code1.node.ch),
                                hi |-> ord(code2.node.ch)]))

\* the member code1, with what follows it
set_item(pat, negate, set, code1) ==
    LET that == peek(pat, code1.next + 1)
    IN  IF code1.st # "ok" THEN code1
        ELSE IF peek(pat, code1.next) # "-"
             THEN parse_set(pat, code1.next, negate, Append(set, code1.node))
        ELSE IF that = "" THEN Failed("error")
        ELSE IF that = "]"
             THEN Parsed([op |-> "in", negate |-> negate,
                          set |-> set \o <<code1.node, Literal("-")>>],
                         code1.next + 2)
        ELSE set_range(pat, negate, set, code1,
                       IF that = "\\" THEN _class_escape(pat, code1.next + 1)
                       ELSE Parsed(Literal(that), code1.next + 2))

parse_set(pat, j, negate, set) ==
    LET this == peek(pat, j)
    IN  IF this = "" THEN Failed("error")         \* unterminated character set
        ELSE IF this = "]" /\ set # <<>>
             THEN Parsed([op |-> "in", negate |-> negate, set |-> set], j + 1)
        ELSE set_item(pat, negate, set,
                      IF this = "\\" THEN _class_escape(pat, j)
                      ELSE Parsed(Literal(this), j + 1))

\* the repeat that starts at pat[i], one of * + ? {
repeat_at(pat, i) ==
    LET le    == RunEnd(pat, i + 1, DigitChars)
        comma == peek(pat, le + 1) = ","
        he    == IF comma THEN RunEnd(pat, le + 2, DigitChars) ELSE le
        lo    == SubSeq(pat, i + 1, le)
        hi    == IF comma THEN SubSeq(pat, le + 2, he) ELSE lo
        rep(min, max, next) ==
            [kind |-> "repeat", min |-> min, max |-> max, next |-> next]
    IN  IF pat[i] = "?" THEN rep(0, 1, i + 1)
        ELSE IF pat[i] = "*" THEN rep(0, MAXREPEAT, i + 1)
        ELSE IF pat[i] = "+" THEN rep(1, MAXREPEAT, i + 1)
        ELSE IF peek(pat, i + 1) = "}" \/ peek(pat, he + 1) # "}"
             THEN [kind |-> "literal"]            \* a '{' that opens no repeat
        ELSE IF Len(lo) > 9 \/ Len(hi) > 9 THEN [kind |-> "unsupported"]
        ELSE IF hi # <<>> /\ int_of(hi) < int_of(lo)
             THEN [kind |-> "error"]              \* min repeat greater than max
        ELSE rep(int_of(lo), IF hi = <<>> THEN MAXREPEAT ELSE int_of(hi), he + 2)

\* _parse_sub: an alternation a|b|c from position i;
\* _parse: one branch of it, appended item by item to subpattern
RECURSIVE _parse_sub(_, _)
RECURSIVE parse_branches(_, _, _)
RECURSIVE _parse(_, _, _)
RECURSIVE parse_group(_, _)

_parse_sub(pat, i) == parse_branches(pat, i, <<>>)

\* the branch b, with what follows it
next_branch(pat, items, b) ==
    IF b.st # "ok" THEN b
    ELSE IF peek(pat, b.next) = "|"
         THEN parse_branches(pat, b.next + 1, Append(items, b.node))
    ELSE IF items = <<>> THEN b
    ELSE Parsed(<<[op |-> "branch", items |-> Append(items, b.node)]>>, b.next)

parse_branches(pat, i, items) == next_branch(pat, items, _parse(pat, i, <<>>))

\* the group of kind op with the parsed content p, at its closing ')'
close_group(pat, op, p) ==
    IF p.st # "ok" THEN p
    ELSE IF peek(pat, p.next) # ")"
         THEN Failed("error")                     \* missing ), unterminated
    ELSE Parsed([op |-> op, p |-> p.node], p.next + 1)

\* the group that opens at pat[i] = '('
parse_group(pat, i) ==
    LET char == peek(pat, i + 2)
        ext  == peek(pat, i + 1) = "?"
    IN  IF ext /\ char = "" THEN Failed("error")  \* unexpected end of pattern
        ELSE IF ext /\ char \in {"P", "#", "<", "(", ">", "-"} \cup FLAGS
             THEN Failed("unsupported")
        ELSE IF ext /\ char \notin {":", "=", "!"}
             THEN Failed("error")                 \* unknown extension
        ELSE close_group(pat,
                         IF ~ext \/ char = ":" THEN "subpattern"
                         ELSE IF char = "=" THEN "assert" ELSE "assert_not",
                         _parse_sub(pat, IF ext THEN i + 3 ELSE i + 1))

\* the item atom, appended to subpattern
parse_atom(pat, subpattern, atom) ==
    IF atom.st # "ok" THEN atom
    ELSE _parse(pat, atom.next, Append(subpattern, atom.node))

\* the repeat r read at pat[i], applied to the last item of subpattern
parse_repeat(pat, i, subpattern, r) ==
    LET item   == subpattern[Len(subpattern)]
        suffix == peek(pat, r.next)
        code   == IF suffix = "?" THEN "min_repeat"
                  ELSE IF suffix = "+" THEN "possessive_repeat"
                  ELSE "max_repeat"
    IN  IF r.kind = "literal" THEN parse_atom(pat, subpattern, Parsed(Literal(pat[i]), i + 1))
        ELSE IF r.kind # "repeat" THEN Failed(r.kind)
        ELSE IF subpattern = <<>> \/ item.op = "at"
             THEN Failed("error")                 \* nothing to repeat
        ELSE IF item.op \in _REPEATCODES
             THEN Failed("error")                 \* multiple repeat
        ELSE IF code = "possessive_repeat" /\ item.op \notin _UNITCODES
             THEN Failed("unsupported")
        ELSE _parse(pat, IF code = "max_repeat" THEN r.next ELSE r.next + 1,
                    [subpattern EXCEPT ![Len(subpattern)] =
                        [op |-> code, min |-> r.min, max |-> r.max,
                         item |-> <<item>>]])

_parse(pat, i, subpattern) ==
    LET this   == peek(pat, i)
        negate == peek(pat, i + 1) = "^"
    IN  IF this \in {"", "|", ")"} THEN Parsed(subpattern, i)
        ELSE IF this \in REPEAT_CHARS
             THEN parse_repeat(pat, i, subpattern, repeat_at(pat, i))
        ELSE parse_atom(pat, subpattern,
                 IF this = "\\" THEN _escape(pat, i)
                 ELSE IF this = "["
                      THEN parse_set(pat, IF negate THEN i + 2 ELSE i + 1, negate, <<>>)
                 ELSE IF this = "(" THEN parse_group(pat, i)
                 ELSE IF this = "." THEN Parsed([op |-> "any"], i + 1)
                 ELSE IF this \in {"^", "$"}
                      THEN Parsed([op |-> "at", at |-> this], i + 1)
                 ELSE Parsed(Literal(this), i + 1))

\* the pattern parsed to p, which has to end the text
parse_end(pat, p) ==
    IF p.st = "ok" /\ p.next <= Len(pat)
    THEN Failed("error")                          \* unbalanced parenthesis
    ELSE p

\* parse: the whole pattern
parse(pat) == parse_end(pat, _parse_sub(pat, 1))

\* re.compile(pat) returns, rather than raises
regex_compiles(pat) ==
    CASE parse(pat).st = "ok" -> TRUE
      [] parse(pat).st = "error" -> FALSE

\* ---- matching ----
SetMax(S) == CHOOSE x \in S : \A y \in S : y <= x

\* the category escapes on a str pattern (Unicode rules)
category(cat, c) ==
    CASE cat = "d" -> c \in DigitChars
      [] cat = "D" -> c \notin DigitChars
      [] cat = "s" -> c \in Whitespace
      [] cat = "S" -> c \notin Whitespace
      [] cat = "w" -> IsWordChar(c)
      [] cat = "W" -> ~IsWordChar(c)

\* one member of a character set against the character c
set_member(m, c) ==
    CASE m.op = "literal" -> c = m.ch
      [] m.op = "range" -> m.lo <= ord(c) /\ ord(c) <= m.hi
      [] m.op = "category" -> category(m.cat, c)

\* a one-character item against the character c
unit_matches(item, c) ==
    CASE item.op = "literal" -> c = item.ch
      [] item.op = "any" -> c # "\n"
      [] item.op = "in" ->
            (\E k \in DOMAIN item.set : set_member(item.set[k], c)) # item.negate

\* a position test at offset r of s
at_matches(at, s, r) ==
    LET before == r > 0 /\ IsWordChar(s[r])
        after  == r < Len(s) /\ IsWordChar(s[r + 1])
    IN  CASE at \in {"^", "A"} -> r = 0
          [] at = "Z" -> r = Len(s)
          [] at = "$" -> r = Len(s) \/ (r = Len(s) - 1 /\ s[Len(s)] = "\n")
          [] at = "b" -> Len(s) > 0 /\ before # after
          [] at = "B" -> Len(s) > 0 /\ before = after

\* regex_ends(p, k, s, P): the offsets in s at which a match of the items
\* p[k..] can end when it starts at one of the offsets in P
RECURSIVE regex_ends(_, _, _, _)
RECURSIVE item_ends(_, _, _)
RECURSIVE times_ends(_, _, _, _)
RECURSIVE upto_ends(_, _, _, _)

\* exactly n occurrences of the subpattern p
times_ends(p, n, s, P) ==
    LET next == regex_ends(p, 1, s, P)
    IN  IF n = 0 \/ P = {} \/ next = P THEN P
        ELSE times_ends(p, n - 1, s, next)

\* zero to n occurrences of the subpattern p (any number for MAXREPEAT)
upto_ends(p, n, s, P) ==
    LET next == P \cup regex_ends(p, 1, s, P)
    IN  IF n = 0 \/ next = P THEN P
        ELSE upto_ends(p, IF n = MAXREPEAT THEN n ELSE n - 1, s, next)

item_ends(item, s, P) ==
    LET rep(Q) == upto_ends(item.item,
                            IF item.max = MAXREPEAT THEN MAXREPEAT
                            ELSE item.max - item.min,
                            s, times_ends(item.item, item.min, s, Q))
    IN  CASE item.op \in _UNITCODES ->
               {r + 1 : r \in {q \in P : q < Len(s) /\ unit_matches(item, s[q + 1])}}
          [] item.op = "at" -> {r \in P : at_matches(item.at, s, r)}
          [] item.op = "subpattern" -> regex_ends(item.p, 1, s, P)
          [] item.op = "branch" ->
               UNION {regex_ends(item.items[k], 1, s, P) : k \in DOMAIN item.items}
          [] item.op = "assert" -> {r \in P : regex_ends(item.p, 1, s, {r}) # {}}
          [] item.op = "assert_not" -> {r \in P : regex_ends(item.p, 1, s, {r}) = {}}
          [] item.op \in {"max_repeat", "min_repeat"} -> rep(P)
          \* possessive: from each start, the longest repetition only
          [] item.op = "possessive_repeat" ->
               {SetMax(rep({r})) : r \in {q \in P : rep({q}) # {}}}

regex_ends(p, k, s, P) ==
    IF k > Len(p) \/ P = {} THEN P
    ELSE regex_ends(p, k + 1, s, item_ends(p[k], s, P))

\* regex.search(s) is not None, for the parsed pattern p
search(p, s) == regex_ends(p, 1, s, 0..Len(s)) # {}

\* re.search(pat, s) is not None, for a pattern that compiles
regex_search(pat, s) ==
    CASE parse(pat).st = "ok" -> search(parse(pat).node, s)

\* ------------------------------------------------------------------------
\* The table: a DataFrame is the sequence of its rows in load order; each
\* row carries its index label (load_data leaves the RangeIndex of read_csv)
\* ------------------------------------------------------------------------
NaN == <<"NaN">>

\* COLLECTION_NAME
COLLECTION_NAME == <<"L","P","I"," ","C","o","l","l","e","c","t","i","o","n">>

s_author == <<"a","u","t","h","o","r">>
s_authors == <<"a","u","t","h","o","r","s">>
s_keyword == <<"k","e","y","w","o","r","d">>
s_keywords == <<"k","e","y","w","o","r","d","s">>
s_title == <<"t","i","t","l","e">>
s_abstract == <<"a","b","s","t","r","a","c","t">>
s_collection == <<"c","o","l","l","e","c","t","i","o","n">>
s_bibcode == <<"b","i","b","c","o","d","e">>
s_url == <<"u","r","l">>
s_year == <<"y","e","a","r">>
s_pubdate == <<"p","u","b","d","a","t","e">>
s_has_pdf == <<"h","a","s","_","p","d","f">>
s_no_pdf == <<"n","o","_","p","d","f">>
s_true == <<"t","r","u","e">>
s_yes == <<"y","e","s">>
s_or == <<"o","r">>
s_and == <<"a","n","d">>
s_1 == <<"1">>
s_star == <<"*">>
s_not_sp == <<"n","o","t"," ">>

\* df.columns after load_data
df_columns == {s_bibcode, s_title, s_author, s_pubdate, s_url, s_abstract,
               s_keywords, s_collection, s_has_pdf}

\* df[field] of one row, for the scalar text columns
cell(row, field) ==
    CASE field = s_title      -> row.title
      [] field = s_abstract   -> row.abstract
      [] field = s_collection -> row.collection
      [] field = s_bibcode    -> row.bibcode
      [] field = s_url        -> row.url
      [] field = s_pubdate    -> row.pubdate

\* a boolean Series over the rows of df, or the exception that building it
\* raised (re.error out of Series.str.contains)
Mask(m) == [raised |-> FALSE, mask |-> m]
RaisedMask == [raised |-> TRUE, mask |-> <<>>]

\* mask &= other
mask_and(a, b) ==
    IF a.raised \/ b.raised THEN RaisedMask
    ELSE Mask([i \in 1..Len(a.mask) |-> a.mask[i] /\ b.mask[i]])

\* mask |= other
mask_or(a, b) ==
    IF a.raised \/ b.raised THEN RaisedMask
    ELSE Mask([i \in 1..Len(a.mask) |-> a.mask[i] \/ b.mask[i]])

\* ~mask
mask_not(a) ==
    IF a.raised THEN RaisedMask
    ELSE Mask([i \in 1..Len(a.mask) |-> ~a.mask[i]])

\* pd.Series(True, index=df.index)
all_true(df) == Mask([i \in 1..Len(df) |-> TRUE])

\* pd.Series(False, index=df.index)
all_false(df) == Mask([i \in 1..Len(df) |-> FALSE])

\* the mask of the cells the compiled pattern is found in (na=False), or
\* the error re.compile raised
contains_compiled(series, regex) ==
    CASE regex.st = "error" -> RaisedMask
      [] regex.st = "ok" ->
           Mask([i \in 1..Len(series) |->
                   series[i] # NaN /\ search(regex.node, series[i])])

\* series.str.contains(pat, na=False) with regex=True, on the cells of a
\* column
str_contains(series, pat) == contains_compiled(series, parse(pat))

\* series.str.lower().fillna('')
lower_fillna(v) == IF v = NaN THEN <<>> ELSE str_lower(v)

\* (variant: the selected rows come out in reverse order)
select_rows_reversed(df, mask) ==
    LET F[i \in 0..Len(df)] ==
          IF i = 0 THEN <<>>
          ELSE IF mask[i] THEN <<df[i]>> \o F[i - 1] ELSE F[i - 1]
    IN  F[Len(df)]

\* df[mask]
select_rows(df, mask) ==
    LET F[i \in 0..Len(df)] ==
          IF i = 0 THEN <<>>
          ELSE IF mask[i] THEN Append(F[i - 1], df[i]) ELSE F[i - 1]
    IN  F[Len(df)]

\* ------------------------------------------------------------------------
\* field_filter
\* ------------------------------------------------------------------------
\* re.escape(val).replace('\\*', '.*'): a sequence of pattern items, each
\* the wildcard ".*" or one literal character
RECURSIVE glob_items(_, _)
glob_items(val, i) ==
    IF i > Len(val) THEN <<>>
    ELSE IF val[i] = "*"
         THEN <<[wild |-> TRUE, ch |-> ""]>> \o glob_items(val, i + 1)
         ELSE <<[wild |-> FALSE, ch |-> val[i]]>> \o glob_items(val, i + 1)

\* offsets at which a match of items[i..] can end, starting from offsets P
\* ('.' of ".*" does not match a newline)
RECURSIVE glob_ends(_, _, _, _)
glob_ends(items, i, s, P) ==
    IF i > Len(items) \/ P = {} THEN P
    ELSE IF items[i].wild
         THEN glob_ends(items, i + 1, s,
                {q \in 0..Len(s) : \E p \in P :
                     p <= q /\ \A r \in (p + 1)..q : s[r] # "\n"})
         ELSE glob_ends(items, i + 1, s,
                {p + 1 : p \in {r \in P : r < Len(s) /\ s[r + 1] = items[i].ch}})

\* str.contains(pattern, regex=True) on one lower-cased cell
pattern_search(val, s) == glob_ends(glob_items(val, 1), 1, s, 0..Len(s)) # {}

\* the value after .lower().strip() and removal of the negation prefix
ff_is_not(value) ==
    LET val == str_strip(str_lower(value))
    IN  str_startswith(val, s_not_sp) \/ str_startswith(val, <<"!">>)

ff_val(value) ==
    LET val == str_strip(str_lower(value))
    IN  IF str_startswith(val, s_not_sp) THEN str_strip(str_from(val, 4))
        ELSE IF str_startswith(val, <<"!">>) THEN str_strip(str_from(val, 1))
        ELSE val

\* (variant: a negated filter without the NaN / empty-string clauses)
field_filter_cell_strict(v, value) ==
    LET match == pattern_search(ff_val(value), lower_fillna(v))
    IN  IF ff_is_not(value) THEN ~match ELSE match

\* one cell of the mask field_filter returns
field_filter_cell(v, value) ==
    LET match == pattern_search(ff_val(value), lower_fillna(v))
    IN  IF ff_is_not(value)
        THEN ~match \/ v = NaN \/ (v # NaN /\ str_strip(v) = <<>>)
        ELSE match

\* (variant: str.contains(..., na=True) on the series without fillna(''))
field_filter_na_true(df, field, value) ==
    Mask([i \in 1..Len(df) |->
            cell(df[i], field) = NaN \/ field_filter_cell(cell(df[i], field), value)])

field_filter(df, field, value) ==
    Mask([i \in 1..Len(df) |-> field_filter_cell(cell(df[i], field), value)])

\* ------------------------------------------------------------------------
\* _search_any_field
\* ------------------------------------------------------------------------
\* any(term in str(k).lower() for k in x)
list_contains(x, term) == \E n \in 1..Len(x) : str_in(term, str_lower(x[n]))

search_text_column(df, col, term) ==
    IF col \in df_columns
    THEN str_contains([i \in 1..Len(df) |-> lower_fillna(cell(df[i], col))], term)
    ELSE all_false(df)

\* text_columns = ['title', 'abstract', 'bibcode']
text_columns == <<s_title, s_abstract, s_bibcode>>

\* mask after the loop over the first n text columns (mask |= ...)
RECURSIVE search_text_columns(_, _, _)
search_text_columns(df, term, n) ==
    IF n = 0 THEN all_false(df)
    ELSE mask_or(search_text_columns(df, term, n - 1),
                 search_text_column(df, text_columns[n], term))

_search_any_field(df, term0) ==
    LET term == str_lower(str_strip(term0))
        text == search_text_columns(df, term, Len(text_columns))
        lists == Mask([i \in 1..Len(df) |->
                         \/ (s_author \in df_columns /\ list_contains(df[i].author, term))
                         \/ (s_keywords \in df_columns /\ list_contains(df[i].keywords, term))])
    IN  mask_or(text, lists)

\* ------------------------------------------------------------------------
\* filter_dataframe_advanced
\* ------------------------------------------------------------------------
\* re.split(r'\s+kw\s+', s): the pieces between the non-overlapping matches
RECURSIVE re_split(_, _, _, _)
re_split(s, kw, from, p) ==
    IF p > Len(s) THEN <<SubSeq(s, from, Len(s))>>
    ELSE
      LET w1 == RunEnd(s, p, Whitespace)
          ke == w1 + Len(kw)
          w2 == RunEnd(s, ke + 1, Whitespace)
      IN  IF w1 >= p /\ ke <= Len(s) /\ SubSeq(s, w1 + 1, ke) = kw /\ w2 > ke
          THEN <<SubSeq(s, from, p - 1)>> \o re_split(s, kw, w2 + 1, w2 + 1)
          ELSE re_split(s, kw, from, p + 1)

split_keyword(s, kw) ==
    LET parts == re_split(s, kw, 1, 1)
    IN  [i \in 1..Len(parts) |-> str_strip(parts[i])]

\* (variant: value in ['true', 'yes', '1'], without lower())
is_truthy_exact(value) == value \in {s_true, s_yes, s_1}

\* value.lower() in ['true', 'yes', '1']
is_truthy(value) == str_lower(value) \in {s_true, s_yes, s_1}

\* one pass of the loop over filters.items()
apply_filter(df, mask, field, value) ==
    IF field \in {s_author, s_authors} /\ s_author \in df_columns
    THEN mask_and(mask, Mask([i \in 1..Len(df) |->
                                list_contains(df[i].author, str_lower(value))]))
    ELSE IF field \in {s_keyword, s_keywords} /\ s_keywords \in df_columns
    THEN mask_and(mask, Mask([i \in 1..Len(df) |->
                                list_contains(df[i].keywords, str_lower(value))]))
    ELSE IF field \in {s_title, s_abstract, s_collection, s_bibcode}
            /\ field \in df_columns
    THEN mask_and(mask, field_filter(df, field, value))
    ELSE IF field = s_url /\ s_url \in df_columns
    THEN mask_and(mask, field_filter(df, s_url, value))
    ELSE IF field \in {s_year, s_pubdate} /\ s_pubdate \in df_columns
    THEN mask_and(mask, str_contains([i \in 1..Len(df) |-> df[i].pubdate], value))
    ELSE IF field = s_has_pdf /\ s_has_pdf \in df_columns
    THEN IF value = s_star \/ value = <<>>
         THEN mask_and(mask, Mask([i \in 1..Len(df) |-> df[i].has_pdf]))
         ELSE mask_and(mask, Mask([i \in 1..Len(df) |->
                                     df[i].has_pdf = is_truthy(value)]))
    ELSE IF field = s_no_pdf /\ s_has_pdf \in df_columns
    THEN IF value = s_star \/ value = <<>>
         THEN mask_and(mask, Mask([i \in 1..Len(df) |-> ~df[i].has_pdf]))
         ELSE mask_and(mask, Mask([i \in 1..Len(df) |->
                                     df[i].has_pdf = ~is_truthy(value)]))
    ELSE mask

\* (variant: only the first entry of the dict is applied)
apply_filters_first(df, filters, n, mask) ==
    IF n > Len(filters) THEN mask
    ELSE apply_filter(df, mask, filters[n][1], filters[n][2])

RECURSIVE apply_filters(_, _, _, _)
apply_filters(df, filters, n, mask) ==
    IF n > Len(filters) THEN mask
    ELSE apply_filters(df, filters, n + 1,
                       apply_filter(df, mask, filters[n][1], filters[n][2]))

\* (variant: the free text is applied whatever the field filters)
applies_general_always(filters, general) == general # <<>>

\* `if general and not filters`
applies_general(filters, general) == general # <<>> /\ filters = <<>>

\* (variant: the early return drops the last row)
early_return_short(df) == SubSeq(df, 1, Len(df) - 1)

\* `if not search_term: return df`
early_return(df) == df

\* a returned DataFrame, or the exception the call raised
Frame(rows) == [raised |-> FALSE, rows |-> rows]
RaisedFrame == [raised |-> TRUE, rows |-> <<>>]

RECURSIVE filter_dataframe_advanced(_, _)
RECURSIVE and_part_mask(_, _)
RECURSIVE and_mask(_, _, _)
RECURSIVE or_mask(_, _, _)

\* the mask of one AND-term
and_part_mask(df, and_part) ==
    LET part == str_strip(and_part)
        is_not == str_startswith(part, s_not_sp)
    IN  IF ~is_not /\ str_startswith(part, <<"(">>) /\ str_endswith(part, <<")">>)
        THEN LET nested == str_strip(SubSeq(part, 2, Len(part) - 1))
                 sub    == filter_dataframe_advanced(df, nested)
             IN  IF sub.raised THEN RaisedMask
                 \* df.index.isin(nested_mask)
                 ELSE Mask([i \in 1..Len(df) |->
                              df[i].index \in {sub.rows[k].index : k \in 1..Len(sub.rows)}])
        \* and_mask &= ~_search_any_field(df, sub_term) for "not ...",
        \* and_mask &= _search_any_field(df, part) otherwise
        ELSE LET found == _search_any_field(df, IF is_not THEN str_strip(str_from(part, 4))
                                                ELSE part)
             IN  IF is_not THEN mask_not(found) ELSE found

\* and_mask after the loop over and_parts
and_mask(df, and_parts, n) ==
    IF n = 0 THEN all_true(df)
    ELSE mask_and(and_mask(df, and_parts, n - 1), and_part_mask(df, and_parts[n]))

\* (variant: general_mask is the last of the or_masks)
or_mask_last(df, or_parts, n) ==
    LET and_parts == split_keyword(or_parts[n], s_and)
    IN  and_mask(df, and_parts, Len(and_parts))

\* general_mask after combining the first n or_masks
or_mask(df, or_parts, n) ==
    LET this == LET and_parts == split_keyword(or_parts[n], s_and)
                IN  and_mask(df, and_parts, Len(and_parts))
    IN  IF n = 1 THEN this
        ELSE mask_or(or_mask(df, or_parts, n - 1), this)

filter_dataframe_advanced(df, search_term) ==
    IF search_term = <<>> THEN Frame(early_return(df))
    ELSE
      LET parsed  == parse_advanced_search(search_term)
          filters == parsed.filters
          fmask   == apply_filters(df, filters, 1, all_true(df))
          mask    == IF applies_general(filters, parsed.rest)
                     THEN LET or_parts == split_keyword(str_lower(parsed.rest), s_or)
                          IN  mask_and(fmask, or_mask(df, or_parts, Len(or_parts)))
                     ELSE fmask
      IN  IF mask.raised THEN RaisedFrame ELSE Frame(select_rows(df, mask.mask))

\* ------------------------------------------------------------------------
\* Bounds and the inputs of the model
\* ------------------------------------------------------------------------
\* rows of the loaded table
MaxRows == 3
\* whitespace-separated words of a typed query
MaxWords == 2

\* the records of METADATA_FILE as pd.read_csv returns them: every cell a
\* str, or NaN for an empty one
MetadataPool == <<
    [bibcode |-> <<"1","9","9","9","m","a","r","s">>,
     title |-> <<"M","a","r","s"," ","R","o","v","e","r">>,
     abstract |-> <<"r","e","d","\n","p","l","a","n","e","t">>,
     pubdate |-> <<"1","9","9","9","-","0","3","-","0","0">>,
     url |-> <<"h","t","t","p",":","/","/","l","e","a","g",".","o","r","g","/","x">>,
     author |-> <<"S","m","i","t","h",","," ","J",".">>,
     keywords |-> <<"r","o","v","e","r">>],
    [bibcode |-> <<"2","0","0","0","v","e","n">>,
     title |-> <<"V","e","n","u","s"," ","P","r","o","b","e">>,
     abstract |-> NaN,
     pubdate |-> <<"2","0","0","0","-","0","1","-","0","0">>,
     url |-> NaN,
     author |-> <<"D","o","e",","," ","A",".">>,
     keywords |-> NaN],
    [bibcode |-> <<"2","0","0","1","x">>,
     title |-> NaN,
     abstract |-> <<"m","a","r","s"," ","a","n","d"," ","v","e","n","u","s">>,
     pubdate |-> NaN,
     url |-> <<" "," ">>,
     author |-> NaN,
     keywords |-> <<"M","a","r","s">>],
    [bibcode |-> <<".","/","2","0","0","2","y">>,
     title |-> <<"V","e","n","u","s"," ","M","o","o","n">>,
     abstract |-> NaN,
     pubdate |-> <<"2","0","1","9","-","0","0","-","0","0">>,
     url |-> <<"h","t","t","p",":","/","/","x",".","o","r","g","/","l","e","a","g">>,
     author |-> <<"S","m","i","t","h",","," ","K",";"," ","M","a","r","s",","," ","M",";">>,
     keywords |-> <<"v","e","n","u","s">>]>>

\* The model is of frames whose text columns have the dtype object, the one
\* Series.str works on (filtering keeps the dtype of a column, whatever
\* rows are left).  read_csv gives it to a column of a file with records
\* when a cell of the column has a value and no value reads as a number or
\* a boolean; a column of empty cells only is read as float64, and .str on
\* it raises AttributeError.
TextColumns == {"title", "abstract", "bibcode", "url", "pubdate"}
WellFormed(rows) ==
    \A col \in TextColumns : rows = <<>> \/ \E i \in 1..Len(rows) : rows[i][col] # NaN

\* METADATA_FILE: absent, or a CSV of up to MaxRows records of the pool
\* (none: a header line only)
Orders == UNION {{o \in [1..n -> 1..Len(MetadataPool)] :
                     \A i, j \in 1..n : i # j => o[i] # o[j]} : n \in 0..MaxRows}
FileAbsent == [exists |-> FALSE, rows |-> <<>>]
MetadataFiles ==
    {FileAbsent}
    \cup {f \in {[exists |-> TRUE, rows |-> [i \in 1..Len(o) |-> MetadataPool[o[i]]]] :
                    o \in Orders} : WellFormed(f.rows)}

\* x.split(';')
RECURSIVE str_split(_, _)
str_split(x, sep) ==
    IF \A i \in 1..Len(x) : x[i] # sep THEN <<x>>
    ELSE LET i == CHOOSE i \in 1..Len(x) :
                     x[i] = sep /\ \A j \in 1..(i - 1) : x[j] # sep
         IN  <<SubSeq(x, 1, i - 1)>> \o str_split(SubSeq(x, i + 1, Len(x)), sep)

RECURSIVE strip_nonempty(_, _)
strip_nonempty(parts, n) ==
    IF n > Len(parts) THEN <<>>
    ELSE IF str_strip(parts[n]) = <<>> THEN strip_nonempty(parts, n + 1)
    ELSE <<str_strip(parts[n])>> \o strip_nonempty(parts, n + 1)

\* df[col].fillna('').apply(lambda x: [k.strip() for k in x.split(';') if k.strip()])
to_list(v) == strip_nonempty(str_split(IF v = NaN THEN <<>> ELSE v, ";"), 1)

\* ------------------------------------------------------------------------
\* pathlib.Path and the file system under it
\* ------------------------------------------------------------------------
\* sep.join(items)
RECURSIVE str_join(_, _)
str_join(items, sep) ==
    IF items = <<>> THEN <<>>
    ELSE IF Len(items) = 1 THEN items[1]
    ELSE items[1] \o sep \o str_join(Tail(items), sep)

\* pathlib on POSIX, parse_parts of one str: the root ('/', or '//' for
\* exactly two leading slashes) and the components, without '' and '.'
parse_parts(part) ==
    LET n == RunEnd(part, 1, {"/"})
        keep(x) == x # <<>> /\ x # <<".">>
    IN  [root |-> IF n = 0 THEN <<>> ELSE IF n = 2 THEN <<"/","/">> ELSE <<"/">>,
         parts |-> SelectSeq(str_split(str_from(part, n), "/"), keep)]

\* str(Path(a) / b): an absolute b replaces a, a relative b is appended
joinpath(a, b) ==
    LET p == parse_parts(a)
        q == parse_parts(b)
        r == IF q.root # <<>> THEN q
             ELSE [root |-> p.root, parts |-> p.parts \o q.parts]
    IN  IF r.root = <<>> /\ r.parts = <<>> THEN <<".">>
        ELSE r.root \o str_join(r.parts, <<"/">>)

\* The file system is a set of files and a set of directories, each named
\* by its path from the working directory ("retrieved_pdfs/x.pdf",
\* "../x.pdf") or from the root ("/x.pdf"), without '.', '..' or repeated
\* slashes; it has no links.  The working directory ".", the root "/" and
\* the directories above the working directory ("..", "../..") exist.
ENOENT == <<"ENOENT">>
ENOTDIR == <<"ENOTDIR">>
is_dir(path, dirs) ==
    \/ path \in dirs \cup {<<".">>, <<"/">>}
    \/ \A c \in Range(str_split(path, "/")) : c = <<".",".">>

\* path resolution by the system, from the working directory or the root:
\* the file or directory the path names (whether or not there is one), each
\* component before the last naming a directory and '..' its parent;
\* ENOTDIR when a file stands where a directory is needed, ENOENT when
\* nothing does
realpath(path, files, dirs) ==
    LET p == parse_parts(path)
        parent(cur) ==
            LET comps == str_split(cur, "/")
                up == str_join(SubSeq(comps, 1, Len(comps) - 1), <<"/">>)
            IN  IF cur = <<"/">> THEN cur
                ELSE IF cur = <<".">> THEN <<".",".">>
                ELSE IF \A x \in Range(comps) : x = <<".",".">>
                THEN cur \o <<"/",".",".">>
                ELSE IF up # <<>> THEN up
                ELSE IF cur[1] = "/" THEN <<"/">>
                ELSE <<".">>
        entry(cur, c) ==
            IF c = <<".",".">> THEN parent(cur)
            ELSE IF cur = <<".">> THEN c
            ELSE IF cur = <<"/">> THEN cur \o c
            ELSE cur \o <<"/">> \o c
        RECURSIVE namei(_, _)
        namei(cur, comps) ==
            IF comps = <<>> THEN cur
            ELSE IF is_dir(cur, dirs) THEN namei(entry(cur, Head(comps)), Tail(comps))
            ELSE IF cur \in files THEN ENOTDIR
            ELSE ENOENT
    IN  namei(IF p.root = <<>> THEN <<".">> ELSE <<"/">>, p.parts)

\* Path(path).exists(): os.stat succeeds; ENOENT and ENOTDIR give False
path_exists(path, files, dirs) ==
    LET r == realpath(path, files, dirs)
    IN  r \notin {ENOENT, ENOTDIR} /\ (r \in files \/ is_dir(r, dirs))

\* repr(s) of a str
repr(s) ==
    LET q == IF "'" \in Range(s) /\ "\"" \notin Range(s) THEN "\"" ELSE "'"
        hex == <<"0","1","2","3","4","5","6","7","8","9","a","b","c","d","e","f">>
        esc(c) ==
            IF c = q \/ c = "\\" THEN <<"\\", c>>
            ELSE IF c = "\t" THEN <<"\\","t">>
            ELSE IF c = "\n" THEN <<"\\","n">>
            ELSE IF c = "\r" THEN <<"\\","r">>
            ELSE IF ord(c) < 32 \/ (ord(c) >= 127 /\ ord(c) <= 160) \/ ord(c) = 173
            THEN <<"\\","x", hex[(ord(c) \div 16) + 1], hex[(ord(c) % 16) + 1]>>
            ELSE <<c>>
        RECURSIVE body(_)
        body(t) == IF t = <<>> THEN <<>> ELSE esc(Head(t)) \o body(Tail(t))
    IN  <<q>> \o body(s) \o <<q>>

\* open(path, "wb"): str(e) of the OSError raised, or "" when the file is
\* opened (created or truncated)
open_wb_error(path, files, dirs) ==
    LET r == realpath(path, files, dirs)
    IN  IF r = ENOENT
        THEN <<"[","E","r","r","n","o"," ","2","]"," ","N","o"," ","s","u","c","h"," ","f",
               "i","l","e"," ","o","r"," ","d","i","r","e","c","t","o","r","y",":"," ">>
             \o repr(path)
        ELSE IF r = ENOTDIR
        THEN <<"[","E","r","r","n","o"," ","2","0","]"," ","N","o","t"," ","a"," ","d","i",
               "r","e","c","t","o","r","y",":"," ">> \o repr(path)
        ELSE IF is_dir(r, dirs)
        THEN <<"[","E","r","r","n","o"," ","2","1","]"," ","I","s"," ","a"," ","d","i","r",
               "e","c","t","o","r","y",":"," ">> \o repr(path)
        ELSE <<>>

\* PDF_DIR / f"{bibcode}.pdf" of the page, PDF_DIR = Path("pdfs")
pdf_path(bibcode) ==
    joinpath(<<"p","d","f","s">>,
             (IF bibcode = NaN THEN <<"n","a","n">> ELSE bibcode) \o <<".","p","d","f">>)

\* the directories there are, besides those that always exist
Directories ==
    {<<"p","d","f","s">>,
     <<"r","e","t","r","i","e","v","e","d","_","p","d","f","s">>,
     <<"r","e","t","r","i","e","v","e","d","_","p","d","f","s","/","s","u","b">>}

\* the files in the directory pdfs
PdfStore == {pdf_path(<<"1","9","9","9","m","a","r","s">>), pdf_path(<<"2","0","0","2","y">>)}

\* load_data: an empty DataFrame when the file is absent; else its records,
\* labelled by the RangeIndex 0..n-1, with the collection name, the author
\* and keywords lists and has_pdf
load_data(file, pdfs) ==
    IF ~file.exists THEN <<>>
    ELSE [i \in 1..Len(file.rows) |->
            [index |-> i - 1,
             bibcode |-> file.rows[i].bibcode,
             title |-> file.rows[i].title,
             abstract |-> file.rows[i].abstract,
             pubdate |-> file.rows[i].pubdate,
             url |-> file.rows[i].url,
             collection |-> COLLECTION_NAME,
             author |-> to_list(file.rows[i].author),
             keywords |-> to_list(file.rows[i].keywords),
             has_pdf |-> path_exists(pdf_path(file.rows[i].bibcode), pdfs, Directories)]]

\* the tables load_data can return
Tables == {load_data(f, PdfStore) : f \in MetadataFiles}

Words == {<<"m","a","r","s">>,
          <<"V","e","n","u","s">>,
          <<"t","i","t","l","e",":","m","a","r","s">>,
          <<"t","i","t","l","e",":","!","v","e","n","u","s">>,
          <<"f","o","o",":","b","a","r">>,
          <<"y","e","a","r",":","1","9">>,
          <<"y","e","a","r",":","1","9","9">>}

\* bare free-text terms
Terms == {<<"m","a","r","s">>, <<"V","e","n","u","s">>, <<"s","m","i","t","h">>, <<"(","x">>}

sp == <<" ">>

RECURSIVE WordQueries(_)
WordQueries(n) ==
    IF n = 0 THEN {<<>>}
    ELSE WordQueries(n - 1) \cup Words
         \cup {q \o sp \o w : q \in WordQueries(n - 1) \ {<<>>}, w \in Words}

OrQuery(t1, kw, t2) == t1 \o sp \o kw \o sp \o t2
NotGroup(t1, t2) == <<"n","o","t"," ","(">> \o t1 \o <<" ","o","r"," ">> \o t2 \o <<")">>

Keywords == {<<"o","r">>, <<"O","R">>, <<"a","n","d">>, <<"A","n","d">>}
BoolQueries == {OrQuery(t1, kw, t2) : t1 \in Terms, kw \in Keywords, t2 \in Terms}
NotGroupQueries == {NotGroup(t1, t2) : t1 \in Terms, t2 \in Terms}

\* field:value, quoted when the value has a space
FieldQuery(field, value) ==
    IF \E i \in 1..Len(value) : value[i] \in Whitespace
    THEN field \o <<":", "\"">> \o value \o <<"\"">>
    ELSE field \o <<":">> \o value

\* fields of the wildcard/negation match and the patterns tried on them
MatchFields == {s_title, s_abstract, s_url, s_bibcode, s_collection}
Patterns == {<<"m","a","r","s">>, <<"M","*","r">>, <<"l","e","a","g","*">>,
             <<"*">>, <<"!","m","a","r","s">>}
Negated(X) == {<<"!">> \o X, <<"n","o","t"," ">> \o X}
FieldQueries ==
    {FieldQuery(f, v) : f \in MatchFields,
                        v \in Patterns \cup UNION {Negated(X) : X \in Patterns}}

\* further queries, one for each remaining branch of the code
OtherQueries == {<<"(","m","a","r","s">>,
                 <<"n","o","t"," ","m","a","r","s">>,
                 <<"n","o","t"," ","(","V","e","n","u","s",")">>,
                 <<"(","m","a","r","s",")"," ","a","n","d"," ","n","o","t"," ","(","V","e","n","u","s",")">>,
                 <<"(","(","m","a","r","s",")",")">>,
                 <<"(",")">>,
                 <<"*">>,
                 <<"s",".","i">>,
                 <<"m",".","r","s">>,
                 <<"a","u","t","h","o","r",":","s","m","i","t","h">>,
                 <<"A","U","T","H","O","R","S",":","d","o","e">>,
                 <<"k","e","y","w","o","r","d","s",":","M","A","R","S">>,
                 <<"k","e","y","w","o","r","d",":","x">>,
                 <<"h","a","s","_","p","d","f",":","*">>,
                 <<"n","o","_","p","d","f",":","*">>,
                 <<"h","a","s","_","p","d","f",":","Y","e","s">>,
                 <<"n","o","_","p","d","f",":","1">>,
                 <<"h","a","s","_","p","d","f",":","n","o">>,
                 <<"n","o","_","p","d","f",":","T","R","U","E">>,
                 <<"y","e","a","r",":","(">>,
                 <<"p","u","b","d","a","t","e",":","1",".","9","9">>,
                 <<"p","u","b","d","a","t","e",":","2","0","+">>,
                 <<"b","i","b","c","o","d","e",":","2","*","x">>,
                 <<"a","b","s","t","r","a","c","t",":","d","*","p">>,
                 <<"t","i","t","l","e",":","\"","m","a","r","s"," ","r","o","v","e","r","\"">>,
                 <<"h","t","t","p",":","/","/","l","e","a","g",".","o","r","g","/","x">>,
                 <<"[">>,
                 <<"m","a","r","s",Latin1[96]>>,
                 <<"y","e","a","r",":",Latin1[96]>>,
                 <<"t","i","t","l","e",":","m",Latin1[96],"*">>,
                 <<"m","a","r","s","|","v","e","n","u","s">>,
                 <<"p","u","b","d","a","t","e",":","1","9","9","?","9">>,
                 <<"y","e","a","r",":","9","{","2",",","1","}">>,
                 <<"é",":","x"," ","V","É","N","U","S">>,
                 <<"y","e","a","r",":","1","9",Latin1[11],"m","a","r","s">>,
                 <<Latin1[28],"V","e","n","u","s",Latin1[160]>>}

Queries == WordQueries(MaxWords) \cup BoolQueries \cup NotGroupQueries
           \cup FieldQueries \cup OtherQueries

\* ------------------------------------------------------------------------
\* main(): one run of the script per interaction
\* ------------------------------------------------------------------------
VARIABLES df,           \* the table load_data returned (cached)
          search_term,  \* the text of the search box
          filters,      \* locals of filter_dataframe_advanced after parsing
          general,
          filtered_df,  \* what filter_dataframe_advanced returned or raised
          pc            \* "input", "filter", "done"; "stopped" after st.stop()

vars == <<df, search_term, filters, general, filtered_df, pc>>

\* retrieve_pdfs_from_wayback.py, main(): the files it works on and its locals
VARIABLES csv_rows,         \* the rows of CSV_FILE
          files,            \* the files there are, each by its resolved path
          row_i,            \* the position of the reader: the row being handled
          wpc,              \* "row", "wayback", "wayback_pdf", "original", "ia", "end";
                            \* "raised" after main() raised
          snapshots,
          pdf_snapshots,
          loop_k,           \* the position of the inner loop
          attempts,
          pdf_downloaded,
          not_found_reason,
          log,              \* the rows written to LOG_FILE
          not_found_rows,
          not_found_file,   \* NOT_FOUND_FILE
          calls             \* the calls of out_path.exists() and download_pdf
                            \* made so far, with the row they were made for

wvars == <<csv_rows, files, row_i, wpc, snapshots, pdf_snapshots, loop_k, attempts,
           pdf_downloaded, not_found_reason, log, not_found_rows, not_found_file,
           calls>>

\* the batch job is not run while the page is served
NotStarted ==
    /\ csv_rows = <<>> /\ files = {} /\ row_i = 0 /\ wpc = "off"
    /\ snapshots = <<>> /\ pdf_snapshots = <<>> /\ loop_k = 0
    /\ attempts = <<>> /\ pdf_downloaded = FALSE /\ not_found_reason = <<>>
    /\ log = <<>> /\ not_found_rows = <<>>
    /\ not_found_file = [written |-> FALSE, rows |-> <<>>]
    /\ calls = <<>>

NoFrame == Frame(<<>>)

\* df = load_data(); if df.empty: st.stop()
Init ==
    /\ df \in Tables
    /\ search_term = <<>>
    /\ filters = <<>>
    /\ general = <<>>
    /\ filtered_df = NoFrame
    /\ pc = IF df = <<>> THEN "stopped" ELSE "input"
    /\ NotStarted

\* search_term = st.text_input("Search", key="search")
TextInput(q) ==
    /\ pc = "input"
    /\ search_term' = q
    /\ pc' = "filter"
    /\ UNCHANGED <<df, filters, general, filtered_df>>
    /\ UNCHANGED wvars

\* filtered_df = filter_dataframe_advanced(df, search_term)
Filter ==
    /\ pc = "filter"
    /\ filtered_df' = filter_dataframe_advanced(df, search_term)
    /\ IF search_term = <<>>
       THEN UNCHANGED <<filters, general>>
       ELSE LET parsed == parse_advanced_search(search_term)
            IN  /\ filters' = parsed.filters
                \* general = general.lower(), where the free text is applied
                /\ general' = IF applies_general(parsed.filters, parsed.rest)
                              THEN str_lower(parsed.rest)
                              ELSE parsed.rest
    /\ pc' = "done"
    /\ UNCHANGED <<df, search_term>>
    /\ UNCHANGED wvars

\* the next interaction reruns the script from the top
Rerun ==
    /\ pc = "done"
    /\ search_term' = <<>>
    /\ filters' = <<>>
    /\ general' = <<>>
    /\ filtered_df' = NoFrame
    /\ pc' = "input"
    /\ UNCHANGED df
    /\ UNCHANGED wvars

Next ==
    \/ \E q \in Queries : TextInput(q)
    \/ Filter
    \/ Rerun

Spec == Init /\ [][Next]_vars

\* ------------------------------------------------------------------------
\* retrieve_pdfs_from_wayback.py: strings and helpers
\* ------------------------------------------------------------------------
PDF_DIR == <<"r","e","t","r","i","e","v","e","d","_","p","d","f","s">>

\* a result of None
None == <<"None">>

s_dot_pdf == <<".","p","d","f">>
s_True == <<"T","r","u","e">>
s_False == <<"F","a","l","s","e">>

\* the texts appended to attempts
a_already == <<"A","l","r","e","a","d","y"," ","d","o","w","n","l","o","a","d","e","d">>
a_snapshot == <<"W","a","y","b","a","c","k"," ","s","n","a","p","s","h","o","t",":"," ">>
a_no_snapshots == <<"N","o"," ","W","a","y","b","a","c","k"," ","s","n","a","p","s","h","o",
        "t","s"," ","f","o","u","n","d">>
a_pdf_snapshot == <<"W","a","y","b","a","c","k"," ","s","n","a","p","s","h","o","t"," ","(",
        ".","p","d","f",")",":"," ">>
a_no_pdf_snapshots == <<"N","o"," ","W","a","y","b","a","c","k"," ",".","p","d","f"," ","s",
        "n","a","p","s","h","o","t","s"," ","f","o","u","n","d">>
a_original == <<"T","r","i","e","d"," ","o","r","i","g","i","n","a","l"," ","U","R","L"," ",
        "d","i","r","e","c","t","l","y">>
a_searched == <<"S","e","a","r","c","h","e","d"," ","I","A"," ","f","o","r"," ","'">>

\* the texts put into not_found_reason
r_snapshot == <<"W","a","y","b","a","c","k"," ","s","n","a","p","s","h","o","t"," ","n","o",
        "t"," ","P","D","F",":"," ">>
r_pdf_snapshot == <<";"," ","W","a","y","b","a","c","k"," ",".","p","d","f"," ","n","o","t",
        " ","P","D","F",":"," ">>
r_no_pdf_snapshots == <<";"," ","N","o"," ","W","a","y","b","a","c","k"," ",".","p","d","f",
        " ","s","n","a","p","s","h","o","t","s"," ","f","o","u","n","d">>
r_original == <<";"," ","O","r","i","g","i","n","a","l"," ","U","R","L"," ","n","o","t"," ",
        "P","D","F",":"," ">>
r_ia == <<";"," ","I","A"," ","s","e","a","r","c","h"," ","n","o","t"," ","P","D","F",":"," ">>
r_no_ia == <<";"," ","N","o"," ","P","D","F"," ","f","o","u","n","d"," ","i","n"," ","I","A",
        " ","s","e","a","r","c","h">>

\* str(Path(PDF_DIR) / f"{bibcode or 'unknown'}.pdf")
out_path(bibcode) ==
    joinpath(PDF_DIR,
             (IF bibcode \in {<<>>, None} THEN <<"u","n","k","n","o","w","n">> ELSE bibcode)
             \o s_dot_pdf)

\* s.rstrip(chars)
RECURSIVE str_rstrip_chars(_, _)
str_rstrip_chars(s, chars) ==
    IF s # <<>> /\ s[Len(s)] \in chars
    THEN str_rstrip_chars(SubSeq(s, 1, Len(s) - 1), chars)
    ELSE s

\* s.strip(chars)
RECURSIVE str_strip_chars(_, _)
str_strip_chars(s, chars) ==
    IF s # <<>> /\ s[1] \in chars THEN str_strip_chars(Tail(s), chars)
    ELSE str_rstrip_chars(s, chars)

\* "; ".join(attempts)
join_attempts(items) == str_join(items, <<";"," ">>)

\* url.rstrip('/') + '.pdf'
pdf_variant(url) == str_rstrip_chars(url, {"/"}) \o s_dot_pdf

\* f"http://web.archive.org/web/{row[0]}/{row[1]}"
snapshot_url(timestamp, original) ==
    <<"h","t","t","p",":","/","/","w","e","b",".","a","r","c","h","i","v","e",".","o","r","g",
        "/","w","e","b","/">> \o timestamp \o <<"/">> \o original

\* the timestamps of the snapshots the CDX API lists for a URL that has any
CdxTimestamps == <<<<"2","0","0","1">>, <<"2","0","0","2">>>>

\* what get_all_wayback_snapshots can return for a URL: no snapshot (also
\* after a request error), or the listed snapshots, oldest first.  For the
\* URL None the request is sent without a url parameter and nothing is
\* listed.
get_all_wayback_snapshots(original_url) ==
    IF original_url = None THEN {<<>>}
    ELSE {<<>>,
          [n \in 1..Len(CdxTimestamps) |-> snapshot_url(CdxTimestamps[n], original_url)]}

\* the responses requests.get can give to download_pdf: a PDF whose body
\* arrives whole, a page that is not a PDF, and a PDF whose connection
\* breaks while the body is read (an exception raised by requests.get or
\* raise_for_status gives another reason text and the flow of the page
\* that is not a PDF)
Responses ==
    {[content_type |-> <<"a","p","p","l","i","c","a","t","i","o","n","/","p","d","f">>,
      body |-> TRUE],
     [content_type |-> <<"t","e","x","t","/","h","t","m","l">>, body |-> TRUE],
     [content_type |-> <<"a","p","p","l","i","c","a","t","i","o","n","/","P","D","F">>,
      body |-> FALSE]}

\* download_pdf(url, out_path) for one response, in a file system with the
\* files fs and the directories Directories: (success, reason) and whether
\* a file is left at out_path.  The file is opened, and so created or
\* emptied, before the body is read; when open() raises there is no file
download_pdf(resp, path, fs) ==
    LET err == open_wb_error(path, fs, Directories)
    IN  IF ~str_in(<<"p","d","f">>, str_lower(resp.content_type))
        THEN [success |-> FALSE,
              reason |-> <<"C","o","n","t","e","n","t","-","T","y","p","e"," ","n","o","t",
                           " ","P","D","F",":"," ">> \o resp.content_type,
              written |-> FALSE]
        ELSE IF err # <<>>
        THEN [success |-> FALSE,
              reason |-> <<"E","r","r","o","r",":"," ">> \o err,
              written |-> FALSE]
        ELSE IF resp.body
        THEN [success |-> TRUE,
              reason |-> <<"D","o","w","n","l","o","a","d","e","d">>,
              written |-> TRUE]
        ELSE [success |-> FALSE,
              reason |-> <<"E","r","r","o","r",":"," ","C","o","n","n","e","c","t","i","o",
                           "n"," ","b","r","o","k","e","n",":"," ","I","n","c","o","m","p",
                           "l","e","t","e","R","e","a","d","(","4"," ","b","y","t","e","s",
                           " ","r","e","a","d",")">>,
              written |-> TRUE]

\* f"https://archive.org/download/{identifier}/{identifier}.pdf"
ia_pdf_url(identifier) ==
    <<"h","t","t","p","s",":","/","/","a","r","c","h","i","v","e",".","o","r","g","/","d","o",
        "w","n","l","o","a","d","/">> \o identifier \o <<"/">> \o identifier \o s_dot_pdf

\* what search_internet_archive can return: None, or the PDF URL of the
\* first text document found
IAResults == {None, ia_pdf_url(<<"d","o","c","1">>)}
search_internet_archive(query) == IAResults

\* the row handed to writer.writerow
log_row(row, wayback_url, downloaded, att, reason) ==
    [url |-> row.url, bibcode |-> row.bibcode, title |-> row.title,
     wayback_url |-> wayback_url,
     pdf_downloaded |-> downloaded,
     attempts |-> join_attempts(att),
     not_found_reason |-> reason]

\* csv.DictReader over the lines of a file whose header is
\* bibcode,url,title, each line a list of cells: a line without cells is
\* skipped, a cell that is missing is None (restval), and the cells beyond
\* the header are listed under the key None (restkey), here the field
\* restkey, empty when the dict has no such key
DictReader(lines) ==
    LET has_cells(cells) == cells # <<>>
        rows == SelectSeq(lines, has_cells)
        get(cells, n) == IF n <= Len(cells) THEN cells[n] ELSE None
    IN  [k \in 1..Len(rows) |->
            [bibcode |-> get(rows[k], 1),
             url |-> get(rows[k], 2),
             title |-> get(rows[k], 3),
             restkey |-> SubSeq(rows[k], 4, Len(rows[k]))]]

\* rows of the input CSV file
MaxInputRows == 2

\* the lines the input files are made of: complete lines, among them two
\* with one target file ("1999mars" and "./1999mars"), one without a
\* bibcode and one whose target is in a directory that does not exist; a
\* line with one cell (the second), and a line with more cells than the
\* header (the fifth)
CsvPool == <<
    <<<<"2","0","0","0","v","e","n">>,
      <<"h","t","t","p",":","/","/","a",".","o","r","g","/","x">>,
      <<"V","e","n","u","s">>>>,
    <<<<"2","0","0","1","x">>>>,
    <<<<"1","9","9","9","m","a","r","s">>,
      <<"h","t","t","p",":","/","/","a",".","o","r","g","/","x",".","p","d","f">>,
      <<>>>>,
    <<<<".","/","1","9","9","9","m","a","r","s">>,
      <<"h","t","t","p",":","/","/","a",".","o","r","g","/","y",".","P","D","F">>,
      <<"M","a","r","s">>>>,
    <<<<"s","u","b","/","2","0","0","2","y">>,
      <<"h","t","t","p",":","/","/","a",".","o","r","g","/","v",".","p","d","f">>,
      <<>>,
      <<"2","0","0","2">>>>,
    <<<<>>,
      <<"h","t","t","p",":","/","/","a",".","o","r","g","/","z","/">>,
      <<>>>>,
    <<<<"n","o","/","2","0","0","1","x">>,
      <<"h","t","t","p",":","/","/","a",".","o","r","g","/","w",".","p","d","f">>,
      <<>>>>>>

\* the input files: up to MaxInputRows consecutive lines of the pool
InputFiles ==
    UNION {{SubSeq(CsvPool, s, s + n - 1) : s \in 1..(Len(CsvPool) - n + 1)} :
              n \in 0..MaxInputRows}

\* the files there are at the start: none, or the target of one line
InitialFiles ==
    {{}} \cup {{realpath(out_path(CsvPool[n][1]), {}, Directories)} :
                  n \in {m \in 1..Len(CsvPool) :
                            realpath(out_path(CsvPool[m][1]), {}, Directories) # ENOENT}}

\* ------------------------------------------------------------------------
\* retrieve_pdfs_from_wayback.py: main()
\* ------------------------------------------------------------------------
WaybackInit ==
    /\ csv_rows \in {DictReader(lines) : lines \in InputFiles}
    /\ files \in InitialFiles
    /\ row_i = 1
    /\ wpc = "row"
    /\ snapshots = <<>>
    /\ pdf_snapshots = <<>>
    /\ loop_k = 1
    /\ attempts = <<>>
    /\ pdf_downloaded = FALSE
    /\ not_found_reason = <<>>
    /\ log = <<>>
    /\ not_found_rows = <<>>
    /\ not_found_file = [written |-> FALSE, rows |-> <<>>]
    /\ calls = <<>>
    /\ df = <<>> /\ search_term = <<>> /\ filters = <<>> /\ general = <<>>
    /\ filtered_df = NoFrame /\ pc = "off"

\* writer.writerow(row), after which the loop goes on to the next row.
\* DictWriter raises ValueError for a dict with a key that is no fieldname,
\* here the key None of a line with more cells than the header, before
\* anything is written: main() ends there
writerow(rowdict) ==
    IF csv_rows[row_i].restkey # <<>>
    THEN /\ wpc' = "raised"
         /\ UNCHANGED <<log, row_i>>
    ELSE /\ log' = Append(log, rowdict)
         /\ row_i' = row_i + 1
         /\ wpc' = "row"

\* a successful attempt: the row is logged with pdf_downloaded "True" and
\* the loop goes on to the next row (break, continue)
Succeed(att, wayback_url) ==
    /\ attempts' = att
    /\ pdf_downloaded' = TRUE
    /\ writerow(log_row(csv_rows[row_i], wayback_url, s_True, att, <<>>))

\* the call download_pdf(url, out_path) that returned o
Download(o) ==
    /\ calls' = Append(calls, [row |-> row_i, call |-> "download_pdf", ok |-> o.success])
    /\ files' = IF o.written
                THEN files \cup {realpath(out_path(csv_rows[row_i].bibcode), files,
                                          Directories)}
                ELSE files

\* for row in reader: the locals are reset; a row whose file exists is
\* logged and skipped, for the others the snapshots of the URL are fetched
ReadRow ==
    /\ wpc = "row" /\ row_i <= Len(csv_rows)
    /\ LET row == csv_rows[row_i]
           exists == path_exists(out_path(row.bibcode), files, Directories)
       IN  /\ calls' = Append(calls, [row |-> row_i, call |-> "exists", ok |-> exists])
           /\ not_found_reason' = <<>>
           /\ IF exists
              THEN /\ attempts' = <<a_already>>
                   /\ pdf_downloaded' = TRUE
                   /\ writerow(log_row(row, <<>>, s_True, <<a_already>>, <<>>))
                   /\ UNCHANGED <<snapshots, loop_k>>
              ELSE /\ attempts' = <<>>
                   /\ pdf_downloaded' = FALSE
                   /\ snapshots' \in get_all_wayback_snapshots(row.url)
                   /\ loop_k' = 1
                   /\ wpc' = "wayback"
                   /\ UNCHANGED <<log, row_i>>
    /\ UNCHANGED <<csv_rows, files, pdf_snapshots, not_found_rows, not_found_file>>
    /\ UNCHANGED vars

\* 1. one pass of the loop over the snapshots of the original URL
TrySnapshot(resp) ==
    /\ wpc = "wayback" /\ loop_k <= Len(snapshots)
    /\ LET o == download_pdf(resp, out_path(csv_rows[row_i].bibcode), files)
           snap_url == snapshots[loop_k]
           att == Append(attempts, a_snapshot \o snap_url)
       IN  /\ Download(o)
           /\ IF o.success
              THEN /\ Succeed(att, snap_url)
                   /\ UNCHANGED <<not_found_reason, loop_k>>
              ELSE /\ attempts' = att
                   /\ not_found_reason' = r_snapshot \o o.reason
                   /\ loop_k' = loop_k + 1
                   /\ UNCHANGED <<pdf_downloaded, log, row_i, wpc>>
    /\ UNCHANGED <<csv_rows, snapshots, pdf_snapshots, not_found_rows, not_found_file>>
    /\ UNCHANGED vars

\* after the loop: the note for an empty list; then url.lower() raises
\* AttributeError for the URL None of a line without a url cell and main()
\* ends there; else the snapshots of the .pdf variant are fetched unless
\* the URL ends with .pdf
AfterSnapshots ==
    /\ wpc = "wayback" /\ loop_k > Len(snapshots) /\ ~pdf_downloaded
    /\ attempts' = IF snapshots = <<>> THEN Append(attempts, a_no_snapshots)
                   ELSE attempts
    /\ not_found_reason' = IF snapshots = <<>> THEN a_no_snapshots
                           ELSE not_found_reason
    /\ IF csv_rows[row_i].url = None
       THEN /\ wpc' = "raised"
            /\ UNCHANGED <<pdf_snapshots, loop_k>>
       ELSE IF ~str_endswith(str_lower(csv_rows[row_i].url), s_dot_pdf)
       THEN /\ pdf_snapshots' \in
                 get_all_wayback_snapshots(pdf_variant(csv_rows[row_i].url))
            /\ loop_k' = 1
            /\ wpc' = "wayback_pdf"
       ELSE /\ wpc' = "original"
            /\ UNCHANGED <<pdf_snapshots, loop_k>>
    /\ UNCHANGED <<csv_rows, files, snapshots, row_i, pdf_downloaded, log,
                   not_found_rows, not_found_file, calls>>
    /\ UNCHANGED vars

\* 2. one pass of the loop over the snapshots of the .pdf variant
TryPdfSnapshot(resp) ==
    /\ wpc = "wayback_pdf" /\ loop_k <= Len(pdf_snapshots)
    /\ LET o == download_pdf(resp, out_path(csv_rows[row_i].bibcode), files)
           snap_url == pdf_snapshots[loop_k]
           att == Append(attempts, a_pdf_snapshot \o snap_url)
       IN  /\ Download(o)
           /\ IF o.success
              THEN /\ Succeed(att, snap_url)
                   /\ UNCHANGED <<not_found_reason, loop_k>>
              ELSE /\ attempts' = att
                   /\ not_found_reason' = not_found_reason \o r_pdf_snapshot \o o.reason
                   /\ loop_k' = loop_k + 1
                   /\ UNCHANGED <<pdf_downloaded, log, row_i, wpc>>
    /\ UNCHANGED <<csv_rows, snapshots, pdf_snapshots, not_found_rows, not_found_file>>
    /\ UNCHANGED vars

AfterPdfSnapshots ==
    /\ wpc = "wayback_pdf" /\ loop_k > Len(pdf_snapshots) /\ ~pdf_downloaded
    /\ attempts' = IF pdf_snapshots = <<>> THEN Append(attempts, a_no_pdf_snapshots)
                   ELSE attempts
    /\ not_found_reason' = IF pdf_snapshots = <<>>
                           THEN not_found_reason \o r_no_pdf_snapshots
                           ELSE not_found_reason
    /\ wpc' = "original"
    /\ UNCHANGED <<csv_rows, files, snapshots, pdf_snapshots, loop_k, row_i,
                   pdf_downloaded, log, not_found_rows, not_found_file, calls>>
    /\ UNCHANGED vars

\* 3. the original URL is tried directly
TryOriginal(resp) ==
    /\ wpc = "original" /\ ~pdf_downloaded
    /\ LET o == download_pdf(resp, out_path(csv_rows[row_i].bibcode), files)
           att == Append(attempts, a_original)
       IN  /\ Download(o)
           /\ IF o.success
              THEN /\ Succeed(att, <<>>)
                   /\ UNCHANGED <<not_found_reason, loop_k>>
              ELSE /\ attempts' = att
                   /\ not_found_reason' = not_found_reason \o r_original \o o.reason
                   /\ loop_k' = 1
                   /\ wpc' = "ia"
                   /\ UNCHANGED <<pdf_downloaded, log, row_i>>
    /\ UNCHANGED <<csv_rows, snapshots, pdf_snapshots, not_found_rows, not_found_file>>
    /\ UNCHANGED vars

\* 4. one pass of the loop over [bibcode, title]: an empty query (or None)
\* is skipped, the others are searched in the Internet Archive and a URL
\* found is tried
SearchIA(found, resp) ==
    /\ wpc = "ia" /\ loop_k <= 2 /\ ~pdf_downloaded
    /\ LET query == <<csv_rows[row_i].bibcode, csv_rows[row_i].title>>[loop_k]
           att == Append(attempts, a_searched \o query \o <<"'">>)
           o == download_pdf(resp, out_path(csv_rows[row_i].bibcode), files)
       IN  IF query \in {<<>>, None}
           THEN /\ loop_k' = loop_k + 1
                /\ UNCHANGED <<attempts, not_found_reason, pdf_downloaded, log,
                               row_i, wpc, files, calls>>
           ELSE /\ found \in search_internet_archive(query)
                /\ IF found # None
                   THEN /\ Download(o)
                        /\ IF o.success
                           THEN /\ Succeed(att, found)
                                /\ UNCHANGED <<not_found_reason, loop_k>>
                           ELSE /\ attempts' = att
                                /\ not_found_reason' =
                                     not_found_reason \o r_ia \o o.reason
                                /\ loop_k' = loop_k + 1
                                /\ UNCHANGED <<pdf_downloaded, log, row_i, wpc>>
                   ELSE /\ attempts' = att
                        /\ loop_k' = loop_k + 1
                        /\ UNCHANGED <<not_found_reason, pdf_downloaded, log,
                                       row_i, wpc, files, calls>>
    /\ UNCHANGED <<csv_rows, snapshots, pdf_snapshots, not_found_rows, not_found_file>>
    /\ UNCHANGED vars

\* after the loop: the row is logged with pdf_downloaded "False" and then
\* added to not_found_rows
NotFound ==
    /\ wpc = "ia" /\ loop_k > 2 /\ ~pdf_downloaded
    /\ LET row == csv_rows[row_i]
           reason == not_found_reason \o r_no_ia
           stripped == str_strip_chars(reason, {";", " "})
       IN  /\ not_found_reason' = reason
           /\ writerow(log_row(row, <<>>, s_False, attempts, stripped))
           /\ not_found_rows' =
                 IF row.restkey # <<>> THEN not_found_rows
                 ELSE Append(not_found_rows,
                             [bibcode |-> row.bibcode, url |-> row.url,
                              reason |-> stripped])
    /\ UNCHANGED <<csv_rows, files, snapshots, pdf_snapshots, loop_k, attempts,
                   pdf_downloaded, not_found_file, calls>>
    /\ UNCHANGED vars

\* after the last row: the not-found list is written if it is not empty
WriteNotFound ==
    /\ wpc = "row" /\ row_i > Len(csv_rows)
    /\ not_found_file' = IF not_found_rows # <<>>
                         THEN [written |-> TRUE, rows |-> not_found_rows]
                         ELSE not_found_file
    /\ wpc' = "end"
    /\ UNCHANGED <<csv_rows, files, row_i, snapshots, pdf_snapshots, loop_k, attempts,
                   pdf_downloaded, not_found_reason, log, not_found_rows, calls>>
    /\ UNCHANGED vars

WaybackNext ==
    \/ ReadRow
    \/ \E resp \in Responses : TrySnapshot(resp)
    \/ AfterSnapshots
    \/ \E resp \in Responses : TryPdfSnapshot(resp)
    \/ AfterPdfSnapshots
    \/ \E resp \in Responses : TryOriginal(resp)
    \/ \E found \in IAResults, resp \in Responses : SearchIA(found, resp)
    \/ NotFound
    \/ WriteNotFound

WaybackSpec == WaybackInit /\ [][WaybackNext]_wvars

\* ------------------------------------------------------------------------
\* Vocabulary of the properties
\* ------------------------------------------------------------------------
RowSet(rows) == {rows[i].index : i \in 1..Len(rows)}

RECURSIVE IsSubsequence(_, _)
IsSubsequence(r, d) ==
    IF r = <<>> THEN TRUE
    ELSE IF d = <<>> THEN FALSE
    ELSE IF Head(r) = Head(d) THEN IsSubsequence(Tail(r), Tail(d))
    ELSE IsSubsequence(r, Tail(d))

NoRepeat(r) == \A i, j \in 1..Len(r) : i # j => r[i] # r[j]

RecognizedFields == {s_author, s_authors, s_keyword, s_keywords, s_title,
                     s_abstract, s_collection, s_bibcode, s_url, s_year,
                     s_pubdate, s_has_pdf, s_no_pdf}

\* q is two name:value tokens of recognized fields separated by one space
TwoFieldFilters(q) ==
    LET ms == finditer(q, 1)
    IN  /\ Len(ms) = 2
        /\ ms[1].start = 1 /\ ms[2].end = Len(q)
        /\ ms[2].start = ms[1].end + 2 /\ q[ms[1].end + 1] = " "
        /\ \A k \in 1..2 : str_lower(ms[k].field) \in RecognizedFields
TokenText(q, k) == LET ms == finditer(q, 1) IN SubSeq(q, ms[k].start, ms[k].end)
TokenKey(q, k) == str_lower(finditer(q, 1)[k].field)

s_foo_bar == <<" ","f","o","o",":","b","a","r">>

\* the query made of the name:value tokens of q alone
RECURSIVE JoinTokens(_, _, _)
JoinTokens(q, ms, i) ==
    IF i > Len(ms) THEN <<>>
    ELSE SubSeq(q, ms[i].start, ms[i].end)
         \o (IF i < Len(ms) THEN sp ELSE <<>>) \o JoinTokens(q, ms, i + 1)
TokensOnly(q) == JoinTokens(q, finditer(q, 1), 1)

\* q without the characters of its matched tokens
WithoutTokens(q) ==
    LET ms == finditer(q, 1)
        outside == {i \in 1..Len(q) :
                      \A k \in 1..Len(ms) : i < ms[k].start \/ i > ms[k].end}
        F[i \in 0..Len(q)] ==
          IF i = 0 THEN <<>>
          ELSE IF i \in outside THEN Append(F[i - 1], q[i]) ELSE F[i - 1]
    IN  F[Len(q)]

\* evaluate(evaluate(table, q1), q2)
Sequential(table, q1, q2) ==
    LET r1 == filter_dataframe_advanced(table, q1)
    IN  IF r1.raised THEN RaisedFrame
        ELSE filter_dataframe_advanced(r1.rows, q2)

\* v is absent, empty or whitespace-only
Blank(v) == v = NaN \/ str_strip(v) = <<>>

\* the literal pieces of a pattern between its stars
RECURSIVE Segments(_, _, _)
Segments(X, from, i) ==
    IF i > Len(X) THEN <<SubSeq(X, from, Len(X))>>
    ELSE IF X[i] = "*" THEN <<SubSeq(X, from, i - 1)>> \o Segments(X, i + 1, i + 1)
    ELSE Segments(X, from, i + 1)

\* s has the pieces one after the other, from offset p on
RECURSIVE InOrder(_, _, _, _)
InOrder(segs, k, s, p) ==
    IF k > Len(segs) THEN TRUE
    ELSE \E i \in p..(Len(s) - Len(segs[k])) :
            /\ SubSeq(s, i + 1, i + Len(segs[k])) = segs[k]
            /\ InOrder(segs, k + 1, s, i + Len(segs[k]))

\* the lower-cased value contains a substring satisfying the glob X, a star
\* standing for any sequence of characters
ContainsGlob(X, v) ==
    LET pat == str_strip(str_lower(X))
        segs == Segments(pat, 1, 1)
        s == lower_fillna(v)
    IN  \E p \in 0..Len(s) :
          /\ p + Len(segs[1]) <= Len(s)
          /\ SubSeq(s, p + 1, p + Len(segs[1])) = segs[1]
          /\ InOrder(segs, 2, s, p + Len(segs[1]))

\* the same with no line break in the stretch a star stands for
RECURSIVE InOrderOnLine(_, _, _, _)
InOrderOnLine(segs, k, s, p) ==
    IF k > Len(segs) THEN TRUE
    ELSE \E i \in p..(Len(s) - Len(segs[k])) :
            /\ \A r \in (p + 1)..i : s[r] # "\n"
            /\ SubSeq(s, i + 1, i + Len(segs[k])) = segs[k]
            /\ InOrderOnLine(segs, k + 1, s, i + Len(segs[k]))

\* positive match of pattern X on the field value v: the lower-cased value
\* contains a substring satisfying the glob, a star standing for any
\* sequence of characters of one line
PositiveMatch(X, v) ==
    LET pat == str_strip(str_lower(X))
        segs == Segments(pat, 1, 1)
        s == lower_fillna(v)
    IN  \E p \in 0..Len(s) :
          /\ p + Len(segs[1]) <= Len(s)
          /\ SubSeq(s, p + 1, p + Len(segs[1])) = segs[1]
          /\ InOrderOnLine(segs, 2, s, p + Len(segs[1]))

IsNegation(X) ==
    LET pat == str_strip(str_lower(X))
    IN  str_startswith(pat, <<"!">>) \/ str_startswith(pat, s_not_sp)

Done == pc = "done"

\* the query in the state is one non-negated filter on a wildcard-match field
PlainFieldFilter ==
    /\ Done /\ Len(filters) = 1 /\ general = <<>>
    /\ filters[1][1] \in MatchFields
    /\ ~IsNegation(filters[1][2])

\* ------------------------------------------------------------------------
\* Properties
\* ------------------------------------------------------------------------
\* C1 (as stated): a query with a name:value token and a free-text word
\* returns exactly the rows passing the field filter AND the free text.
C1_FieldAndFreeText ==
    LET tokens == TokensOnly(search_term)
        free   == str_strip(WithoutTokens(search_term))
        rt     == filter_dataframe_advanced(df, tokens)
        rf     == filter_dataframe_advanced(df, free)
    IN  (Done /\ tokens # <<>> /\ free # <<>> /\ ~rt.raised /\ ~rf.raised
              /\ \A k \in 1..Len(filters) : filters[k][1] \in RecognizedFields)
        => /\ ~filtered_df.raised
           /\ RowSet(filtered_df.rows) = RowSet(rt.rows) \cap RowSet(rf.rows)

\* C1 (amended): when the query has a name:value token, the free-text
\* remainder is not evaluated; the result is that of the tokens alone.
C1_FreeTextIgnored ==
    (Done /\ filters # <<>> /\ general # <<>>)
      => filtered_df = filter_dataframe_advanced(df, TokensOnly(search_term))

C1_Witness ==
    /\ Done /\ filters # <<>> /\ general # <<>> /\ ~filtered_df.raised
    /\ \A k \in 1..Len(filters) : filters[k][1] \in RecognizedFields
    /\ LET rf == filter_dataframe_advanced(df, general)
       IN  ~rf.raised /\ ~(RowSet(filtered_df.rows) \subseteq RowSet(rf.rows))

\* C2: filtering leaves the table as it is and returns a subsequence of it:
\* rows of the table, none twice, in their original order.
C2_Subsequence ==
    [][pc = "filter" =>
         /\ df' = df
         /\ ~filtered_df'.raised =>
              /\ IsSubsequence(filtered_df'.rows, df)
              /\ NoRepeat(filtered_df'.rows)]_vars

C2_Witness ==
    /\ Done /\ ~filtered_df.raised /\ search_term # <<>>
    /\ Len(filtered_df.rows) = 2 /\ Len(df) = 3
    /\ filtered_df.rows = <<df[1], df[3]>>

\* C3: the empty query returns the full table, same rows in the same order.
C3_EmptyQueryIdentity ==
    (Done /\ search_term = <<>>) => filtered_df = Frame(df)

C3_Witness == Done /\ search_term = <<>> /\ Len(df) >= 2 /\ filtered_df = Frame(df)

\* C4 (as stated): for any two field filters, also of the same field, the
\* combined query gives what filtering by the first and then by the second
\* gives.
C4_Conjunction ==
    (Done /\ TwoFieldFilters(search_term))
      => filtered_df = Sequential(df, TokenText(search_term, 1),
                                      TokenText(search_term, 2))

\* C4 (amended): the same, for two filters of different field names.
C4_ConjunctionDistinctFields ==
    (Done /\ TwoFieldFilters(search_term)
          /\ TokenKey(search_term, 1) # TokenKey(search_term, 2))
      => filtered_df = Sequential(df, TokenText(search_term, 1),
                                      TokenText(search_term, 2))

C4_Witness ==
    /\ Done /\ TwoFieldFilters(search_term)
    /\ TokenKey(search_term, 1) # TokenKey(search_term, 2)
    /\ ~filtered_df.raised /\ filtered_df.rows # <<>>
    /\ \A k \in 1..2 :
         Len(filter_dataframe_advanced(df, TokenText(search_term, k)).rows)
           > Len(filtered_df.rows)

\* C5: adding a token with an unrecognized field name to a query does not
\* change the result of the query.
C5_UnknownFieldNoOp ==
    (Done /\ str_endswith(search_term, s_foo_bar))
      => filtered_df = filter_dataframe_advanced(df,
                         SubSeq(search_term, 1, Len(search_term) - Len(s_foo_bar)))

\* C6: filtering never raises, whatever the query.
C6_NeverRaises == Done => ~filtered_df.raised

\* C7: "not (t1 or t2)" returns the rows that neither t1 nor t2 returns.
C7_NotGroup ==
    Done => \A t1 \in Terms, t2 \in Terms :
      LET r1 == filter_dataframe_advanced(df, t1)
          r2 == filter_dataframe_advanced(df, t2)
      IN  (search_term = NotGroup(t1, t2) /\ ~r1.raised /\ ~r2.raised)
          => /\ ~filtered_df.raised
             /\ RowSet(filtered_df.rows)
                  = RowSet(df) \ (RowSet(r1.rows) \cup RowSet(r2.rows))

\* C8: "t1 or t2" returns the union and "t1 and t2" the intersection of what
\* t1 and t2 return, the keyword in any letter case; the combined query
\* raises exactly when one of the terms does.
C8_UnionIntersection ==
    Done => \A t1 \in Terms, t2 \in Terms, kw \in Keywords :
      LET r1 == filter_dataframe_advanced(df, t1)
          r2 == filter_dataframe_advanced(df, t2)
      IN  (search_term = OrQuery(t1, kw, t2))
          => /\ filtered_df.raised <=> (r1.raised \/ r2.raised)
             /\ ~filtered_df.raised =>
                  RowSet(filtered_df.rows) =
                    IF str_lower(kw) = s_or
                    THEN RowSet(r1.rows) \cup RowSet(r2.rows)
                    ELSE RowSet(r1.rows) \cap RowSet(r2.rows)

C8_Witness ==
    \E t1 \in Terms, t2 \in Terms :
      LET a == RowSet(filter_dataframe_advanced(df, t1).rows)
          b == RowSet(filter_dataframe_advanced(df, t2).rows)
      IN  /\ Done /\ search_term = OrQuery(t1, <<"O","R">>, t2)
          /\ ~filtered_df.raised
          /\ ~(a \subseteq b) /\ ~(b \subseteq a) /\ a \cap b # {}
          /\ RowSet(filtered_df.rows) = a \cup b

\* C9: the free text the parser returns is the query without the characters
\* of its matched tokens, trimmed.
C9_FreeTextIsRemainder ==
    (Done /\ search_term # <<>>)
      => parse_advanced_search(search_term).rest
           = str_strip(WithoutTokens(search_term))

\* C10 (as stated): a negated filter "!X" / "not X" passes a row iff X has
\* no positive match on the value or the value is blank; and on a non-blank
\* value it passes iff the filter X does not, for every pattern X.
C10_Negation ==
    Done => \A f \in MatchFields, X \in Patterns : \A n \in Negated(X) :
      (search_term = FieldQuery(f, n))
        => /\ ~filtered_df.raised
           /\ \A i \in 1..Len(df) :
                LET v == cell(df[i], f)
                    passes == df[i].index \in RowSet(filtered_df.rows)
                    passesX == df[i].index \in
                       RowSet(filter_dataframe_advanced(df, FieldQuery(f, X)).rows)
                IN  /\ passes <=> (~PositiveMatch(X, v) \/ Blank(v))
                    /\ ~Blank(v) => (passes <=> ~passesX)

\* C10 (amended): the complement law holds for the patterns X that do not
\* themselves begin with a negation prefix.
C10_NegationOfPlainPattern ==
    Done => \A f \in MatchFields, X \in Patterns : \A n \in Negated(X) :
      (search_term = FieldQuery(f, n))
        => /\ ~filtered_df.raised
           /\ \A i \in 1..Len(df) :
                LET v == cell(df[i], f)
                    passes == df[i].index \in RowSet(filtered_df.rows)
                    passesX == df[i].index \in
                       RowSet(filter_dataframe_advanced(df, FieldQuery(f, X)).rows)
                IN  /\ passes <=> (~PositiveMatch(X, v) \/ Blank(v))
                    /\ (~Blank(v) /\ ~IsNegation(X)) => (passes <=> ~passesX)

C10_Witness ==
    \E f \in MatchFields, X \in Patterns : \E n \in Negated(X) :
      /\ Done /\ search_term = FieldQuery(f, n) /\ ~IsNegation(X)
      /\ \E i \in 1..Len(df) :
           Blank(cell(df[i], f)) /\ PositiveMatch(X, cell(df[i], f))
           /\ df[i].index \in RowSet(filtered_df.rows)
      /\ \E i \in 1..Len(df) :
           ~Blank(cell(df[i], f)) /\ df[i].index \notin RowSet(filtered_df.rows)

\* C11: a filter field:X on a wildcard-match field passes a row iff the
\* lower-cased field value contains a substring satisfying the glob X, where
\* a star stands for any sequence of characters and every other character
\* is literal (a*c: a substring that starts with a and ends with c).
C11_WildcardContainment ==
    PlainFieldFilter
      => /\ ~filtered_df.raised
         /\ \A i \in 1..Len(df) :
              df[i].index \in RowSet(filtered_df.rows)
                <=> ContainsGlob(filters[1][2], cell(df[i], filters[1][1]))

\* the pattern has a character that is not a star
HasLiteral(X) ==
    LET pat == str_strip(str_lower(X))
    IN  \E k \in 1..Len(pat) : pat[k] # "*"

\* C12 (as stated): on title, abstract, collection, bibcode and url, a row whose field
\* value is absent never passes a non-negated filter with a non-empty
\* pattern, patterns made of or containing a star included.
C12_AbsentNeverPasses ==
    (PlainFieldFilter /\ filters[1][2] # <<>>)
      => /\ ~filtered_df.raised
         /\ \A i \in 1..Len(df) :
              cell(df[i], filters[1][1]) = NaN
                => df[i].index \notin RowSet(filtered_df.rows)

\* C12 (amended): a row whose field value is absent passes a non-negated
\* filter exactly when the pattern is made of stars only; it never passes a
\* pattern with a literal character, with or without stars.
C12_AbsentPassesStarsOnly ==
    PlainFieldFilter
      => /\ ~filtered_df.raised
         /\ \A i \in 1..Len(df) :
              cell(df[i], filters[1][1]) = NaN
                => (df[i].index \in RowSet(filtered_df.rows)
                      <=> ~HasLiteral(filters[1][2]))

C12_Witness ==
    /\ PlainFieldFilter /\ HasLiteral(filters[1][2])
    /\ \E k \in 1..Len(filters[1][2]) : filters[1][2][k] = "*"
    /\ \E i \in 1..Len(df) :
         cell(df[i], filters[1][1]) = NaN
         /\ df[i].index \notin RowSet(filtered_df.rows)
    /\ filtered_df.rows # <<>>

\* the query in the state is one free-text term: no name:value token, no
\* whitespace, not a parenthesized group
BareTerm ==
    /\ Done /\ filters = <<>> /\ search_term # <<>>
    /\ \A k \in 1..Len(search_term) : search_term[k] \notin Whitespace
    /\ ~(str_startswith(search_term, <<"(">>) /\ str_endswith(search_term, <<")">>))

\* term is a plain substring of the lower-cased title, abstract or bibcode
\* of the row, or of one of its authors or keywords
PlainAnyField(row, term) ==
    \/ \E col \in {s_title, s_abstract, s_bibcode} :
          str_in(term, lower_fillna(cell(row, col)))
    \/ \E n \in 1..Len(row.author) : str_in(term, str_lower(row.author[n]))
    \/ \E n \in 1..Len(row.keywords) : str_in(term, str_lower(row.keywords[n]))

\* C13: a bare free-text term returns exactly the rows in which the
\* lower-cased term is a plain substring, every character literal, of the
\* title, abstract or bibcode or of an author or keyword entry.
C13_PlainSubstring ==
    (BareTerm /\ ~filtered_df.raised)
      => \A i \in 1..Len(df) :
           df[i].index \in RowSet(filtered_df.rows)
             <=> PlainAnyField(df[i], str_lower(search_term))

\* the query in the state is one has_pdf or no_pdf filter
PdfFilter ==
    /\ Done /\ Len(filters) = 1 /\ general = <<>>
    /\ filters[1][1] \in {s_has_pdf, s_no_pdf}

\* the rows of the table with / without the attachment flag
WithPdf(table, flag) == {table[i].index : i \in {k \in 1..Len(table) : table[k].has_pdf = flag}}

\* what the filter must return when `truthy` tells whether its value is
\* one of true, yes, 1
PdfExpected(table, field, v, truthy) ==
    IF field = s_has_pdf
    THEN WithPdf(table, IF v = s_star THEN TRUE ELSE truthy)
    ELSE WithPdf(table, IF v = s_star THEN FALSE ELSE ~truthy)

\* has_pdf:* and no_pdf:* return two disjoint sets of rows covering the table
PdfPartition ==
    LET has == filter_dataframe_advanced(df, s_has_pdf \o <<":", "*">>)
        no  == filter_dataframe_advanced(df, s_no_pdf \o <<":", "*">>)
    IN  /\ ~has.raised /\ ~no.raised
        /\ RowSet(has.rows) \cap RowSet(no.rows) = {}
        /\ RowSet(has.rows) \cup RowSet(no.rows) = RowSet(df)

\* C14 (as stated): has_pdf:v passes the rows with an attachment when v is
\* a star, and otherwise those whose flag equals (v is exactly one of true,
\* yes, 1); no_pdf:v the complementary rows; has_pdf:* and no_pdf:*
\* partition the table.
C14_PdfFilterExact ==
    PdfFilter
      => /\ ~filtered_df.raised
         /\ RowSet(filtered_df.rows)
              = PdfExpected(df, filters[1][1], filters[1][2],
                            filters[1][2] \in {s_true, s_yes, s_1})
         /\ filters[1][2] = s_star => PdfPartition

\* C14 (amended): the same with the value compared in lower case, so that
\* Yes or TRUE count as true as well.
C14_PdfFilterLowerCase ==
    PdfFilter
      => /\ ~filtered_df.raised
         /\ RowSet(filtered_df.rows)
              = PdfExpected(df, filters[1][1], filters[1][2],
                            str_lower(filters[1][2]) \in {s_true, s_yes, s_1})
         /\ filters[1][2] = s_star => PdfPartition

C14_Witness ==
    /\ PdfFilter /\ ~filtered_df.raised
    /\ str_lower(filters[1][2]) \in {s_true, s_yes, s_1}
    /\ filters[1][2] \notin {s_true, s_yes, s_1}
    /\ filtered_df.rows # <<>> /\ Len(filtered_df.rows) < Len(df)

\* the calls made for input row k
Existed(k) ==
    \E n \in 1..Len(calls) :
       calls[n].row = k /\ calls[n].call = "exists" /\ calls[n].ok
Succeeded(k) ==
    \E n \in 1..Len(calls) :
       calls[n].row = k /\ calls[n].call = "download_pdf" /\ calls[n].ok

\* the entries of the not-found list that the log rows call for
RECURSIVE NotFoundOf(_)
NotFoundOf(rows) ==
    IF rows = <<>> THEN <<>>
    ELSE (IF Head(rows).pdf_downloaded = s_False
          THEN <<[bibcode |-> Head(rows).bibcode, url |-> Head(rows).url,
                  reason |-> Head(rows).not_found_reason]>>
          ELSE <<>>) \o NotFoundOf(Tail(rows))

\* C15: in the Wayback batch job every input row handled so far has exactly
\* one row in the retrieval log, in input order, whatever the outcome of the
\* fallback chain, and when main() has ended every input row has one; the
\* log row says "True" iff the target file existed or a download for the
\* row succeeded; no download is attempted for a row after its file was
\* found or a download for it succeeded; and the not-found list holds
\* exactly the rows logged "False".
C15_OneLogRowPerInput ==
    /\ Len(log) = row_i - 1
    /\ wpc \in {"end", "raised"} => Len(log) = Len(csv_rows)
    /\ \A k \in 1..Len(log) :
         /\ log[k].url = csv_rows[k].url
         /\ log[k].bibcode = csv_rows[k].bibcode
         /\ log[k].title = csv_rows[k].title
         /\ log[k].pdf_downloaded \in {s_True, s_False}
         /\ log[k].pdf_downloaded = s_True <=> (Existed(k) \/ Succeeded(k))
    /\ \A m, n \in 1..Len(calls) :
         (m < n /\ calls[m].row = calls[n].row /\ calls[n].call = "download_pdf")
           => ~calls[m].ok
    /\ not_found_rows = NotFoundOf(log)
    /\ wpc = "end" /\ not_found_rows # <<>>
         => not_found_file = [written |-> TRUE, rows |-> not_found_rows]

====
